---------------------------- MODULE Spec2Model ----------------------------
(***************************************************************************)
(* QuantumFlow: the plan executor (internal/agent executor), the project   *)
(* manifest, and the /execute command that drives them.                    *)
(*                                                                         *)
(* One plan is followed through its life: Planner.Generate creates it,     *)
(* Executor.Execute runs it phase by phase (called directly on the plan    *)
(* object, or by the /execute command on the plan loaded from disk), and   *)
(* the /execute command may reset it.                                      *)
(***************************************************************************)
EXTENDS Integers, Sequences, FiniteSets, TLC

(***************************************************************************)
(* Bounds of the model.                                                    *)
(***************************************************************************)
MaxPhases == 2      \* a plan has 0..MaxPhases phases
MaxRuns == 2        \* Execute is entered at most MaxRuns times
MaxBlocks == 2      \* file blocks matched in one agent answer
MaxLines == 2       \* shell lines in the command blocks of one answer
MaxWorkers == 2     \* worker goroutines of the pool (PoolConfig.Workers)
MaxConcurrent == 1  \* size of the semaphore (PoolConfig.MaxConcurrent)
QueueSize == 2      \* capacity of the queue (PoolConfig.QueueSize)
MaxRequests == 3    \* requests given to Submit
MaxTime == 4        \* the clock of the routing cache runs from 0 to MaxTime
TTL == 2            \* the ttl given to NewRoutingCache, in ticks of the clock
MaxAgents == 3      \* agents given to executeParallel
MaxRegistrations == 3  \* calls of RegisterAgent
MaxPieces == 3      \* pieces of a string given to normalizeAgentType

\* a nil pointer (plan.Manifest, state.StartedAt, state.CompletedAt)
NIL == [nil |-> TRUE]

\* the processors of the machine
MaxCPU == 64

\* the plans generated
MaxPlans == 3

\* the ticks of the wall clock, and how many of them make a second
MaxTicks == 4

TicksPerSecond == 2

\* the number of records in a response body
MaxRecords == 3

\* the capacity of responseChan (100 in generate)
ChanSize == 2

\* executePhase, line 153: request.Timeout is 10 minutes, two units of five
PhaseTimeout == 2

\* inference.DefaultConfig: http.Client.Timeout is 15 minutes
ClientTimeout == 3

\* DefaultOrchestratorConfig
DefaultOrchestratorConfig == [ConflictResolution |-> TRUE]

\* a time.Time, by the clock of the model
Time(t) == [at |-> t]

(***************************************************************************)
(* Generic helpers.                                                        *)
(***************************************************************************)
Range(s) == {s[k] : k \in 1..Len(s)}

SeqsUpTo(S, n) == UNION {[1..k -> S] : k \in 0..n}

NoDuplicates(s) == \A a, b \in 1..Len(s) : s[a] = s[b] => a = b

\* strings.Contains on token sequences
Contains(s, pat) ==
    \E k \in 1..(Len(s) - Len(pat) + 1) : SubSeq(s, k, k + Len(pat) - 1) = pat

RECURSIVE TrimLeft(_)
TrimLeft(s) == IF s # <<>> /\ Head(s) = " " THEN TrimLeft(Tail(s)) ELSE s

RECURSIVE TrimRight(_)
TrimRight(s) ==
    IF s # <<>> /\ s[Len(s)] = " " THEN TrimRight(SubSeq(s, 1, Len(s) - 1)) ELSE s

\* strings.TrimSpace on a line given as a sequence of tokens
TrimSpace(s) == TrimRight(TrimLeft(s))

(***************************************************************************)
(* Plan types (plan_types.go).                                             *)
(***************************************************************************)
PhaseStatusPending == "pending"
PhaseStatusInProgress == "in_progress"
PhaseStatusCompleted == "completed"
PhaseStatusFailed == "failed"
PhaseStatusSkipped == "skipped"

ExecutionStatusPending == "pending"
ExecutionStatusApproved == "approved"
ExecutionStatusRunning == "running"
ExecutionStatusCompleted == "completed"
ExecutionStatusFailed == "failed"
ExecutionStatusCancelled == "cancelled"

AgentKinds == {"code", "data", "infra", "sec"}

\* Planner.parsePlanResponse gives phase k the id phase-k; the name is the
\* backend's.
PhaseID(k) == <<"phase-1", "phase-2", "phase-3", "phase-4">>[k]
PhaseName(k) == <<"alpha", "beta", "gamma", "delta">>[k]
PhaseAgent(k) == <<"code", "data", "infra", "sec">>[k]

\* The dependency lists the backend may give phase k (1-based): none, the
\* previous phase by id or by name, the phase itself, a phase that does not
\* exist, or the previous phase together with one that does not exist.
DepChoices(k) ==
    {{}, {PhaseID(k)}, {"ghost"}}
        \cup (IF k > 1
              THEN {{PhaseID(k - 1)}, {PhaseName(k - 1)}, {PhaseID(k - 1), "ghost"}}
              ELSE {})


(***************************************************************************)
(* File paths.  A path is a flag (does it begin with "/") and its segments; *)
(* Clean is path/filepath.Clean as processFileBlocks calls it.             *)
(***************************************************************************)
Path(rooted, segs) == [rooted |-> rooted, segs |-> segs]

RECURSIVE CleanSegs(_, _, _)
CleanSegs(segs, rooted, out) ==
    IF segs = <<>> THEN out
    ELSE LET s == Head(segs)
             r == Tail(segs)
         IN  IF s = "." THEN CleanSegs(r, rooted, out)
             ELSE IF s = ".."
                  THEN IF Len(out) > 0 /\ out[Len(out)] # ".."
                       THEN CleanSegs(r, rooted, SubSeq(out, 1, Len(out) - 1))
                       ELSE IF rooted THEN CleanSegs(r, rooted, out)
                            ELSE CleanSegs(r, rooted, Append(out, ".."))
                  ELSE CleanSegs(r, rooted, Append(out, s))

Clean(p) == Path(p.rooted, CleanSegs(p.segs, p.rooted, <<>>))

\* filepath.Dir of a clean path; <<>> stands for "."
Dir(p) == IF p.segs = <<>> THEN p ELSE Path(p.rooted, SubSeq(p.segs, 1, Len(p.segs) - 1))

\* the segments that begin with the two characters ".."
DotDotSegs == {"..", "..a"}

\* strings.HasPrefix(cleanPath, "..") || strings.HasPrefix(cleanPath, "/")
IsUnsafeOnlyRooted(cleanPath) == cleanPath.rooted

IsUnsafe(cleanPath) ==
    \/ (~cleanPath.rooted /\ cleanPath.segs # <<>> /\ Head(cleanPath.segs) \in DotDotSegs)
    \/ cleanPath.rooted

PathA == Path(FALSE, <<"a">>)
PathDotA == Path(FALSE, <<".", "a">>)
PathDB == Path(FALSE, <<"d", "b">>)
PathEtc == Path(TRUE, <<"etc">>)
PathSneak == Path(FALSE, <<"d", "..", "..", "e">>)
PathDotDotA == Path(FALSE, <<"..a">>)
PathRO == Path(FALSE, <<"ro", "x">>)
PathF == Path(FALSE, <<"f", "x">>)

RawPaths == {PathA, PathDotA, PathDB, PathEtc, PathSneak, PathDotDotA, PathRO, PathF}

\* The file system the plan runs in: ro is a read-only directory, f is a
\* regular file.  os.MkdirAll(dir) and os.WriteFile(cleanPath) fail there.
mkdirAllFails(dir) == dir.segs # <<>> /\ Head(dir.segs) = "f"

writeFileFails(cleanPath) == cleanPath.segs # <<>> /\ Head(cleanPath.segs) = "ro"

(***************************************************************************)
(* The agent's answer, as processFileBlocks and processCommandBlocks see   *)
(* it: the fenced blocks the two file patterns match, in the order of the  *)
(* text, and the shell blocks, each a list of lines.                       *)
(***************************************************************************)
FileBlock(pat, path, empty) == [pat |-> pat, path |-> path, empty |-> empty]

FileBlocks ==
    {FileBlock(1, p, FALSE) : p \in RawPaths \ {PathDotA}}
        \cup {FileBlock(2, PathDotA, FALSE), FileBlock(1, PathDB, TRUE)}

FileAnswers == SeqsUpTo(FileBlocks, MaxBlocks)

FewFileAnswers == {<<>>, <<FileBlock(1, PathA, FALSE)>>, <<FileBlock(1, PathRO, FALSE)>>}

CmdLs == <<"ls">>
CmdFalse == <<"false">>
CmdRmRootTmp == <<" ", "rm", " ", "-rf", " ", "/", "tmp">>
CmdSudoRmHome == <<"sudo", " ", "rm", " ", "-rf", " ", "~">>
CmdForkBomb == <<":(){ :|:& };:">>
CmdComment == <<"#", " ", "ls">>

CmdLines == {CmdLs, CmdFalse, CmdRmRootTmp, CmdSudoRmHome, CmdForkBomb, CmdComment}

\* the shell blocks of an answer: at most MaxLines lines, in one block or two
CmdAnswers ==
    {<<>>}
        \cup {<<ls>> : ls \in SeqsUpTo(CmdLines, MaxLines) \ {<<>>}}
        \cup UNION {{<<SubSeq(ls, 1, c), SubSeq(ls, c + 1, Len(ls))>> : c \in 1..(Len(ls) - 1)}
                        : ls \in SeqsUpTo(CmdLines, MaxLines)}

FewCmdAnswers == {<<>>, <<<<CmdLs>>>>, <<<<CmdFalse>>>>}

\* cmd.Run() returns an error: the command exits non-zero
runFails(cmdStr) == cmdStr = CmdFalse

(***************************************************************************)
(* isDangerousCommand.                                                     *)
(***************************************************************************)
dangerous ==
    << <<"rm", " ", "-rf", " ", "/">>,
       <<"rm", " ", "-rf", " ", "~">>,
       <<":(){ :|:& };:">> >>

isDangerousCommandRootOnly(cmd) == Contains(cmd, dangerous[1])

isDangerousCommand(cmd) == \E d \in 1..Len(dangerous) : Contains(cmd, dangerous[d])


(***************************************************************************)
(* Project manifest (project_state.go).                                    *)
(***************************************************************************)
\* A map[string][]string is the set of its <<key, files>> pairs.  A key is
\* a directory as it is spelled: the path, and whether a "/" ends it.
Key(dir, slash) == [dir |-> dir, slash |-> slash]

\* m[key] = append(m[key], file)
appendToKey(m, key, file) ==
    LET old == {e \in m.entries : e[1] = key}
        list == IF old = {} THEN <<>> ELSE (CHOOSE e \in old : TRUE)[2]
    IN  [entries |-> (m.entries \ old) \cup {<<key, Append(list, file)>>}]

\* shared: FileStructure is the very map of plan.FileStructure, not a map
\* of the manifest's own
NewProjectManifest ==
    [createdFiles |-> <<>>, fileStructure |-> [entries |-> {}], shared |-> FALSE]

SetExpectedStructure(m, structure) ==
    [m EXCEPT !.fileStructure = structure, !.shared = TRUE]

FileExistsNever(m, path) == FALSE

FileExists(m, path) == \E k \in 1..Len(m.createdFiles) : m.createdFiles[k].path = path

\* filepath.Dir gives "." for a file of the base directory, which is "."
AddFile(m, path, phase) ==
    [m EXCEPT !.createdFiles = Append(@, [path |-> path, phase |-> phase]),
              !.fileStructure = appendToKey(@, Key(Dir(path), FALSE),
                                            path.segs[Len(path.segs)])]

(***************************************************************************)
(* processFileBlocks: the matches of pattern 1, then those of pattern 2.   *)
(* acc carries the manifest, the paths written, the unsafe paths skipped   *)
(* and the error that ends the function.                                   *)
(***************************************************************************)
IsPattern1(b) == b.pat = 1
IsPattern2(b) == b.pat = 2

Matches(answer) == SelectSeq(answer, IsPattern1) \o SelectSeq(answer, IsPattern2)

RECURSIVE writeMatches(_, _, _)
writeMatches(matches, acc, phaseName) ==
    IF matches = <<>> \/ acc.err THEN acc
    ELSE LET match == Head(matches)
             rest == Tail(matches)
             cleanPath == Clean(match.path)
             dir == Dir(cleanPath)
         IN  IF match.empty
             THEN writeMatches(rest, acc, phaseName)
             ELSE IF IsUnsafe(cleanPath)
             THEN writeMatches(rest, [acc EXCEPT !.unsafe = @ \cup {cleanPath}],
                               phaseName)
             ELSE IF FileExists(acc.manifest, cleanPath)
             THEN writeMatches(rest, [acc EXCEPT !.existing = @ \cup {cleanPath}],
                               phaseName)
             ELSE IF dir.segs # <<>> /\ mkdirAllFails(dir)
             THEN [acc EXCEPT !.err = TRUE]
             ELSE IF writeFileFails(cleanPath)
             THEN [acc EXCEPT !.err = TRUE]
             ELSE writeMatches(rest,
                               [acc EXCEPT !.manifest = AddFile(@, cleanPath, phaseName),
                                           !.written = Append(@, cleanPath)],
                               phaseName)

processFileBlocks(answer, m, phaseName) ==
    writeMatches(Matches(answer),
                 [manifest |-> m, written |-> <<>>, unsafe |-> {}, existing |-> {},
                  err |-> FALSE],
                 phaseName)

(***************************************************************************)
(* processCommandBlocks: every line of every shell block, in order, until  *)
(* the first command that exits non-zero.  launched lists the commands     *)
(* handed to bash, the failing one included.                               *)
(***************************************************************************)
RECURSIVE runLines(_, _)
runLines(lines, acc) ==
    IF lines = <<>> \/ acc.err THEN acc
    ELSE LET cmdStr == TrimSpace(Head(lines))
             rest == Tail(lines)
         IN  IF cmdStr = <<>> \/ Head(cmdStr) = "#"
             THEN runLines(rest, acc)
             ELSE IF isDangerousCommand(cmdStr)
             THEN runLines(rest, [acc EXCEPT !.skipped = Append(@, cmdStr)])
             ELSE IF runFails(cmdStr)
             THEN [acc EXCEPT !.launched = Append(@, cmdStr), !.err = TRUE]
             ELSE runLines(rest, [acc EXCEPT !.launched = Append(@, cmdStr)])

RECURSIVE runBlocks(_, _)
runBlocks(blocks, acc) ==
    IF blocks = <<>> \/ acc.err THEN acc
    ELSE LET script == Head(blocks)
         IN  IF \A k \in 1..Len(script) : TrimSpace(script[k]) = <<>>
             THEN runBlocks(Tail(blocks), acc)
             ELSE runBlocks(Tail(blocks), runLines(script, acc))

processCommandBlocks(blocks) ==
    runBlocks(blocks, [launched |-> <<>>, skipped |-> <<>>, err |-> FALSE])

\* executePhase only logs the errors of the two extractions: they never make
\* the phase fail.
extractionFailsPhaseOnError(fileErr, cmdErr) == fileErr \/ cmdErr

extractionFailsPhase(fileErr, cmdErr) == FALSE

(***************************************************************************)
(* areDependenciesMet.  Indices are the code's, from 0: phase i of the     *)
(* code is ps[i + 1].                                                      *)
(***************************************************************************)
areDependenciesMetAnyPhase(ps, st, phase) ==
    \A depID \in phase.dependencies :
        \E k \in 1..Len(ps) : ps[k].id = depID \/ ps[k].name = depID

areDependenciesMet(ps, st, phase) ==
    \A depID \in phase.dependencies :
        \E c \in 1..Len(st.completedPhases) :
            LET completedPhase == ps[st.completedPhases[c] + 1]
            IN  completedPhase.id = depID \/ completedPhase.name = depID

(***************************************************************************)
(* The state changes of Execute.                                           *)
(***************************************************************************)
\* lines 31-40
startStateAnew(st, now) ==
    [st EXCEPT !.status = ExecutionStatusRunning,
               !.startedAt = Time(now),
               !.currentPhase = 0]

startState(st, now) ==
    [st EXCEPT !.status = ExecutionStatusRunning,
               !.startedAt = IF @ = NIL THEN Time(now) ELSE @,
               !.currentPhase = IF @ < 0 THEN 0 ELSE @]

\* lines 92-93
failState(st, i) ==
    [st EXCEPT !.status = ExecutionStatusFailed,
               !.failedPhases = Append(@, i),
               !.nilSlices = @ \ {"FailedPhases"}]

\* lines 98-99
succeedStateNoAppend(st, i) == [st EXCEPT !.currentPhase = i + 1]

succeedState(st, i) ==
    [st EXCEPT !.completedPhases = Append(@, i),
               !.nilSlices = @ \ {"CompletedPhases"},
               !.currentPhase = i + 1]

\* lines 106-108
finishState(st, now) ==
    [st EXCEPT !.status = ExecutionStatusCompleted,
               !.completedAt = Time(now)]

\* handleExecuteCommand, "Reset state"
resetState(st) ==
    [st EXCEPT !.status = ExecutionStatusPending,
               !.currentPhase = 0,
               !.completedPhases = <<>>,
               !.failedPhases = <<>>,
               !.nilSlices = {},
               !.startedAt = NIL,
               !.completedAt = NIL]

resetPhases(ps) ==
    [k \in 1..Len(ps) |->
        [ps[k] EXCEPT !.status = PhaseStatusPending,
                      !.tasks = [t \in 1..Len(@) |->
                                    [@[t] EXCEPT !.completed = FALSE, !.result = ""]]]]

markFirstTask(phase, answer) ==
    [phase EXCEPT !.tasks = [t \in 1..Len(@) |->
                                IF t = 1
                                THEN [@[t] EXCEPT !.completed = TRUE,
                                                  !.result = answer]
                                ELSE @[t]]]

\* executePhase, "Mark all tasks as completed"
markTasks(phase, answer) ==
    [phase EXCEPT !.tasks = [t \in 1..Len(@) |->
                                [@[t] EXCEPT !.completed = TRUE, !.result = answer]]]


(***************************************************************************)
(* State.                                                                  *)
(***************************************************************************)
VARIABLES
    phases,       \* plan.Phases of the plan object in memory
    state,        \* plan.State
    manifest,     \* plan.Manifest, NIL or a manifest (never serialized)
    saved,        \* the plan as SavePlanState last wrote it
    agents,       \* the agent kinds registered with the orchestrator
    checkpoints,  \* Executor.checkpoints, by phase index
    checkpointed, \* what the latest checkpoint was taken of: the manifest's
                  \* createdFiles and the files on disk at that moment
    disk,         \* the clean paths of the files written so far
    pc,           \* where the control is
    idx,          \* the loop variable i of Execute
    scenario,     \* who calls Execute, how often, and what the agents answer
    result,       \* what the last call of Execute returned
    runs,         \* calls of Execute so far; also the clock of time.Now()
    called,       \* the phases whose agent was called during this Execute
    files,        \* what processFileBlocks did with the answer in hand
    shell,        \* what processCommandBlocks did with the last answer
    ctx,          \* the context given to Execute: "live" or "cancelled"
    reply,        \* the line RequestApproval read last, "none" before it
    fileStructure, \* plan.FileStructure: NIL or a map from directory to files
    waited,       \* the time since the agent of the phase was called, in
                  \* units of five minutes
    agentResponse \* what the agent of the phase returned: NIL before the
                  \* answer, then the Response with its Answer

planVars == <<phases, state, manifest, saved, agents, checkpoints, checkpointed, disk, pc, idx,
              scenario, result, runs, called, files, shell, ctx, reply,
              fileStructure, waited, agentResponse>>

\* The inference pool (inference.Pool) and its clients.
VARIABLES
    queue,        \* the requests buffered in p.queue, oldest first
    closed,       \* close(p.queue) has happened
    semaphore,    \* the number of tokens in p.semaphore
    poolCtx,      \* p.ctx: "live" or "cancelled"
    metrics,      \* p.metrics
    workers,      \* per worker goroutine: where it is, and its request
    requests,     \* the requests given to Submit so far, in the order given
    taken,        \* the requests received from p.queue, in the order taken
    shutdown,     \* Shutdown: "none", "waiting", "nil" or "timeout"
    panic         \* "none", or the run-time panic that ended the process

poolVars == <<queue, closed, semaphore, poolCtx, metrics, workers, requests, taken,
              shutdown, panic>>

\* The routing cache of the classifier (agent.RoutingCache) and its clock.
VARIABLES
    cache,        \* c.cache: the entries by normalized query
    clock,        \* time.Now()
    ticker,       \* a tick of the ticker of cleanup is pending in ticker.C
    got,          \* what the last call of Get returned
    lastSet       \* history: the arguments and time of the last Set, by key

cacheVars == <<cache, clock, ticker, got, lastSet>>

\* The orchestrator (agent.AgentOrchestrator): one call of Execute that
\* runs its agents in parallel.
VARIABLES
    config,       \* o.config: ConflictResolution
    fanout,       \* executeParallel: per goroutine, where it is and the
                  \* slots responses[idx] and errors[idx]
    execPc,       \* where Execute is
    collected,    \* what executeParallel returned: responses and error
    finalResponse \* what Execute returned: a response, an error, or NIL

orchVars == <<config, fanout, execPc, collected, finalResponse>>

\* The registry of the orchestrator (o.agents) and its callers.
VARIABLES
    registry,     \* o.agents: the agent registered for a kind
    registered,   \* the calls of RegisterAgent so far: agent and result
    routing,      \* the kind a Route in progress got from the classifier
    routed,       \* what the last Route returned
    listed        \* what the last GetAgents returned

registryVars == <<registry, registered, routing, routed, listed>>

\* The classifier's normalizeAgentType on the agent named by the model.
VARIABLES
    agentStr,     \* the string given to normalizeAgentType
    normalizedType, \* normalizeAgentType(agentStr), "" before the call
    normalizedAgain \* normalizeAgentType of that result, "" before the call

classifierVars == <<agentStr, normalizedType, normalizedAgain>>

\* One streaming generate call of the inference client and the agent that
\* consumes it
VARIABLES
    body,         \* the records of the response body, in order of arrival
    scanned,      \* how many records scanner.Scan has returned
    responseChan, \* the tokens buffered in the channel
    closes,       \* how many times responseChan has been closed
    producer,     \* where the goroutine of generate is
    genResp,      \* the record the goroutine is about to send, or NIL
    streamCtx,    \* the context of the call: "live" or "cancelled"
    fullResponse, \* the tokens the agent has received
    consumer,     \* where Execute of the agent is
    returned,     \* what Execute of the agent returned, or NIL
    interrupted   \* the context was cancelled with tokens still pending

streamVars == <<body, scanned, responseChan, closes, producer, genResp,
                streamCtx, fullResponse, consumer, returned, interrupted>>

\* The planner and the directory of the saved plans
VARIABLES
    wallClock,    \* time.Now(), in ticks
    generated,    \* the ids of the plans Planner.Generate returned, in order
    stateDir      \* ~/.quantumflow/state: for each id, the plan in its file

plannerVars == <<wallClock, generated, stateDir>>

\* the variables the actions of one component leave alone
\* A call of NewPool
VARIABLES
    numCPU,       \* runtime.NumCPU() of the machine
    poolConfig,   \* the argument of NewPool: NIL or a PoolConfig
    created       \* the pool NewPool returned, or NIL before the call

newPoolVars == <<numCPU, poolConfig, created>>

outsidePlan == <<streamVars, plannerVars, poolVars, cacheVars, orchVars, registryVars, classifierVars,
    newPoolVars>>

outsidePool == <<streamVars, plannerVars, planVars, cacheVars, orchVars, registryVars, classifierVars,
    newPoolVars>>

outsideCache == <<streamVars, plannerVars, planVars, poolVars, orchVars, registryVars, classifierVars,
    newPoolVars>>

outsideOrch == <<streamVars, plannerVars, planVars, poolVars, cacheVars, registryVars, classifierVars,
    newPoolVars>>

outsideClassifier == <<planVars, poolVars, cacheVars, orchVars, registryVars,
                       streamVars, plannerVars,
    newPoolVars>>

outsideStream == <<planVars, poolVars, cacheVars, orchVars, registryVars,
                   classifierVars, plannerVars,
    newPoolVars>>

outsidePlanner == <<planVars, poolVars, cacheVars, orchVars, registryVars,
                    classifierVars, streamVars,
    newPoolVars>>

outsideRegistry == <<phases, state, manifest, saved, checkpoints, checkpointed, disk, pc, idx,
                     scenario, result, runs, called, files, shell, ctx, reply,
                     fileStructure, waited, agentResponse,
                     poolVars, cacheVars, orchVars,
                     classifierVars, streamVars, plannerVars,
    newPoolVars>>

outsideNewPool == <<planVars, poolVars, cacheVars, orchVars,
    registryVars, classifierVars, streamVars, plannerVars>>

vars == <<planVars, poolVars, cacheVars, orchVars, registryVars,
          classifierVars, streamVars, plannerVars,
    newPoolVars>>

\* NewPool has not been called
NotCreated == created = NIL

\* no plan has been generated yet
NoPlans ==
    /\ wallClock = 0
    /\ generated = <<>>
    /\ stateDir = <<>>

\* Generate has not been called
NoStream ==
    /\ scanned = 0
    /\ responseChan = <<>>
    /\ closes = 0
    /\ producer = "idle"
    /\ genResp = NIL
    /\ streamCtx = "live"
    /\ fullResponse = <<>>
    /\ consumer = "generate"
    /\ returned = NIL
    /\ interrupted = FALSE

\* normalizeAgentType has not been called
NoClassification ==
    /\ normalizedType = ""
    /\ normalizedAgain = ""

\* the calls of RegisterAgent, Route and GetAgents have not begun; the
\* registry holds one agent for each kind of agents
NoCalls ==
    /\ registry = [kind \in agents |-> 0]
    /\ registered = <<>>
    /\ routing = NIL
    /\ routed = NIL
    /\ listed = NIL

\* the orchestrator before Execute is called
NewAgentOrchestrator ==
    /\ fanout = <<>>
    /\ execPc = "idle"
    /\ collected = NIL
    /\ finalResponse = NIL

\* NewRoutingCache, lines 26-34
NewRoutingCache ==
    /\ cache = <<>>
    /\ clock = 0
    /\ ticker = FALSE
    /\ got = [ok |-> FALSE, route |-> NIL]
    /\ lastSet = <<>>

\* NewPool, lines 68-78 and 81-84: the workers wait for a request
NewPool ==
    /\ queue = <<>>
    /\ closed = FALSE
    /\ semaphore = 0
    /\ poolCtx = "live"
    /\ metrics = [TotalRequests |-> 0, CompletedOK |-> 0, CompletedError |-> 0,
                  CurrentInflight |-> 0]
    /\ workers = [w \in 1..MaxWorkers |-> [at |-> "idle", req |-> 0]]
    /\ requests = <<>>
    /\ taken = <<>>
    /\ shutdown = "none"
    /\ panic = "none"

NoFiles == [written |-> <<>>, unsafe |-> {}, existing |-> {}, err |-> FALSE]

NoShell == [blocks |-> <<>>, launched |-> <<>>, skipped |-> <<>>, err |-> FALSE]

\* the tasks of phase k: two, one, none, two, ...
NumTasks(k) == (3 - k) % 3

\* Planner.parsePlanResponse: phase k of a plan
NewPhase(k, deps) ==
    [id |-> PhaseID(k), name |-> PhaseName(k), agent |-> PhaseAgent(k),
     tasks |-> [t \in 1..NumTasks(k) |-> [completed |-> FALSE, result |-> ""]],
     dependencies |-> deps, status |-> PhaseStatusPending]

\* Planner.Generate: plan.State = ExecutionState{Status: pending}; nilSlices
\* names the slices of the state that are nil rather than empty
NewState ==
    [status |-> ExecutionStatusPending, currentPhase |-> 0,
     completedPhases |-> <<>>, failedPhases |-> <<>>,
     nilSlices |-> {"CompletedPhases", "FailedPhases"},
     startedAt |-> NIL, completedAt |-> NIL]

\* plan.FileStructure as Planner.Generate leaves it: a nil map (the answer
\* of stage 1 has no "dirs"), the empty map of the fallback, or directories
FileStructures ==
    {NIL, [entries |-> {}],
     [entries |-> {<<Key(Path(FALSE, <<"d">>), TRUE), <<"main.py">>>>}]}

\* the plan object, without its manifest
Plan(ps, st, fs) == [phases |-> ps, state |-> st, fileStructure |-> fs]

(***************************************************************************)
(* encoding/json on the plan: a field with omitempty is left out when it   *)
(* is empty, a nil slice is written as null, a missing field is read as    *)
(* the zero value.                                                         *)
(***************************************************************************)
Omitted == [omitted |-> TRUE]

JSONNull == [null |-> TRUE]

\* a []int
marshalSlice(isNil, s) == IF isNil THEN JSONNull ELSE [items |-> s]

\* a *time.Time with omitempty
marshalTime(t) == IF t = NIL THEN Omitted ELSE [rfc3339 |-> t.at]

\* a string with omitempty
marshalString(str) == IF str = "" THEN Omitted ELSE [string |-> str]

\* a map with omitempty: left out when nil or of length 0
marshalMap(m) ==
    IF m = NIL \/ m.entries = {} THEN Omitted ELSE [object |-> m.entries]

\* ExecutionState, plan_types.go lines 44-52
marshalState(st) ==
    [status |-> st.status,
     current_phase |-> st.currentPhase,
     completed_phases |->
         marshalSlice("CompletedPhases" \in st.nilSlices, st.completedPhases),
     failed_phases |->
         marshalSlice("FailedPhases" \in st.nilSlices, st.failedPhases),
     started_at |-> marshalTime(st.startedAt),
     completed_at |-> marshalTime(st.completedAt)]

\* Phase and Task, plan_types.go lines 23-41
marshalPhase(phase) ==
    [id |-> phase.id, name |-> phase.name, agent |-> phase.agent,
     tasks |-> [t \in 1..Len(phase.tasks) |->
                  [completed |-> phase.tasks[t].completed,
                   result |-> marshalString(phase.tasks[t].result)]],
     dependencies |-> phase.dependencies, status |-> phase.status]

\* json.MarshalIndent(plan), ExecutionPlan lines 10-20: no manifest
Marshal(plan) ==
    [file_structure |-> marshalMap(plan.fileStructure),
     phases |-> [k \in 1..Len(plan.phases) |-> marshalPhase(plan.phases[k])],
     state |-> marshalState(plan.state)]

unmarshalSlice(v) == IF v = JSONNull THEN <<>> ELSE v.items

unmarshalTime(v) == IF v = Omitted THEN NIL ELSE Time(v.rfc3339)

unmarshalString(v) == IF v = Omitted THEN "" ELSE v.string

unmarshalMap(v) ==
    IF v = Omitted \/ v = JSONNull THEN NIL ELSE [entries |-> v.object]

unmarshalState(doc) ==
    [status |-> doc.status,
     currentPhase |-> doc.current_phase,
     completedPhases |-> unmarshalSlice(doc.completed_phases),
     failedPhases |-> unmarshalSlice(doc.failed_phases),
     nilSlices |->
         (IF doc.completed_phases = JSONNull THEN {"CompletedPhases"} ELSE {})
           \cup (IF doc.failed_phases = JSONNull THEN {"FailedPhases"} ELSE {}),
     startedAt |-> unmarshalTime(doc.started_at),
     completedAt |-> unmarshalTime(doc.completed_at)]

unmarshalPhase(doc) ==
    [id |-> doc.id, name |-> doc.name, agent |-> doc.agent,
     tasks |-> [t \in 1..Len(doc.tasks) |->
                  [completed |-> doc.tasks[t].completed,
                   result |-> unmarshalString(doc.tasks[t].result)]],
     dependencies |-> doc.dependencies, status |-> doc.status]

\* json.Unmarshal(data, &plan) on a zero ExecutionPlan
Unmarshal(doc) ==
    Plan([k \in 1..Len(doc.phases) |-> unmarshalPhase(doc.phases[k])],
         unmarshalState(doc.state),
         unmarshalMap(doc.file_structure))

\* ApprovalWorkflow.SavePlanState: the content of the file of the plan
SavePlanState(plan) == Marshal(plan)

\* ApprovalWorkflow.LoadPlanState on the file of the plan
LoadPlanState(file) == Unmarshal(file)

\* A scenario: Execute is called on the plan object by a program that uses
\* the package ("api"), or by the /execute command of the shell ("repl");
\* Execute is called at most maxRuns times; the agents give a few answers
\* ("few") or every answer within the bounds ("all").
Scenario(mode, maxRuns, answers) ==
    [mode |-> mode, maxRuns |-> maxRuns, answers |-> answers]

fileAnswers == IF scenario.answers = "all" THEN FileAnswers ELSE FewFileAnswers

cmdAnswers == IF scenario.answers = "all" THEN CmdAnswers ELSE FewCmdAnswers

\* the text of an answer, response.Answer
AnswerTexts == {"", "done"}

answerTexts == IF scenario.answers = "all" THEN {"done"} ELSE AnswerTexts

\* The plan as /plan leaves it: generated, and saved by SavePlanState.
PlanInit ==
    /\ state = NewState
    /\ NewRoutingCache
    /\ NewAgentOrchestrator
    /\ NoCalls
    /\ NoClassification
    /\ NoStream
    /\ NoPlans
    /\ NotCreated
    /\ manifest = NIL
    /\ saved = SavePlanState(Plan(phases, state, fileStructure))
    /\ checkpoints = {}
    /\ checkpointed = NIL
    /\ disk = {}
    /\ pc = "idle"
    /\ idx = 0
    /\ result = "none"
    /\ runs = 0
    /\ called = {}
    /\ files = NoFiles
    /\ shell = NoShell
    /\ ctx = "live"
    /\ reply = "none"
    /\ waited = 0
    /\ agentResponse = NIL
    /\ NewPool

\* The life of a plan: any plan of up to MaxPhases phases, up to MaxRuns
\* calls of Execute, a few answers.
Init ==
    /\ \E n \in 0..MaxPhases :
         \E deps \in [1..n -> UNION {DepChoices(k) : k \in 1..MaxPhases + 1}] :
            /\ \A k \in 1..n : deps[k] \in DepChoices(k)
            /\ phases = [k \in 1..n |-> NewPhase(k, deps[k])]
    /\ agents \in {AgentKinds, {"code"}}
    /\ \E mode \in {"api", "repl"} : scenario = Scenario(mode, MaxRuns, "few")
    /\ fileStructure \in FileStructures
    /\ config = DefaultOrchestratorConfig
    /\ agentStr = <<>>
    /\ body = <<>>
    /\ numCPU = 1
    /\ poolConfig = NIL
    /\ PlanInit

\* The extraction: one call of Execute on a plan without dependencies, with
\* the four agents of main registered, and every answer within the bounds.
ExtractInit ==
    /\ \E n \in 1..MaxPhases : phases = [k \in 1..n |-> NewPhase(k, {})]
    /\ agents = AgentKinds
    /\ scenario = Scenario("api", 1, "all")
    /\ fileStructure = NIL
    /\ config = DefaultOrchestratorConfig
    /\ agentStr = <<>>
    /\ body = <<>>
    /\ numCPU = 1
    /\ poolConfig = NIL
    /\ PlanInit

(***************************************************************************)
(* Execute returns res: the /execute command then saves the plan.          *)
(***************************************************************************)
Return(res) ==
    /\ pc' = "idle"
    /\ result' = res
    /\ saved' = IF scenario.mode = "repl"
                THEN SavePlanState(Plan(phases', state', fileStructure))
                ELSE saved

(***************************************************************************)
(* Executor.Execute, lines 29-62: called on the plan in memory, directly   *)
(* (pc = "idle") or by the /execute command after the approval.             *)
(***************************************************************************)
Execute ==
    /\ \/ pc = "idle" /\ scenario.mode = "api" /\ runs < scenario.maxRuns
       \/ pc = "approved"
    /\ runs' = runs + 1
    /\ state' = startState(state, runs')
    /\ manifest' = IF manifest # NIL THEN manifest
                   ELSE IF fileStructure # NIL
                        THEN SetExpectedStructure(NewProjectManifest, fileStructure)
                        ELSE NewProjectManifest
    /\ idx' = state'.currentPhase
    /\ pc' = "loop"
    /\ result' = "none"
    /\ called' = {}
    /\ files' = NoFiles
    /\ shell' = NoShell
    /\ ctx' = "live"
    /\ agentResponse' = NIL
    /\ UNCHANGED <<phases, saved, agents, checkpoints, checkpointed, disk, scenario, fileStructure, waited, outsidePlan,
                   reply>>

\* lines 63 and 105-118: the loop is over
ExecuteFinish ==
    /\ pc = "loop"
    /\ idx >= Len(phases)
    /\ state' = finishState(state, runs)
    /\ UNCHANGED phases
    /\ Return("nil")
    /\ files' = NoFiles
    /\ shell' = NoShell
    /\ UNCHANGED <<manifest, agents, checkpoints, checkpointed, disk, idx, scenario, fileStructure, waited, agentResponse, outsidePlan,
                   ctx, reply, runs, called>>

\* lines 66-69
DependenciesNotMet ==
    /\ pc = "loop"
    /\ idx < Len(phases)
    /\ ~areDependenciesMet(phases, state, phases[idx + 1])
    /\ UNCHANGED <<phases, state>>
    /\ Return("dependencies not met")
    /\ files' = NoFiles
    /\ shell' = NoShell
    /\ UNCHANGED <<manifest, agents, checkpoints, checkpointed, disk, idx, scenario, fileStructure, waited, agentResponse, outsidePlan,
                   ctx, reply, runs, called>>

\* lines 66-83 and 122-156: the checkpoint, then executePhase up to the call
\* of the agent
PhaseStart ==
    /\ pc = "loop"
    /\ idx < Len(phases)
    /\ areDependenciesMet(phases, state, phases[idx + 1])
    /\ phases[idx + 1].agent \in agents
    /\ waited' = 0
    /\ checkpoints' = checkpoints \cup {idx}
    /\ checkpointed' = [createdFiles |-> manifest.createdFiles, disk |-> disk]
    /\ phases' = [phases EXCEPT ![idx + 1].status = PhaseStatusInProgress]
    /\ called' = called \cup {idx}
    /\ files' = NoFiles
    /\ shell' = NoShell
    /\ pc' = "agent"
    /\ UNCHANGED <<state, manifest, saved, agents, disk, idx, scenario,
                   fileStructure, agentResponse, outsidePlan, ctx, reply, result, runs>>

\* lines 66-95 and 122-137: no agent of the phase's kind is registered
PhaseAgentNotFound ==
    /\ pc = "loop"
    /\ idx < Len(phases)
    /\ areDependenciesMet(phases, state, phases[idx + 1])
    /\ phases[idx + 1].agent \notin agents
    /\ checkpoints' = checkpoints \cup {idx}
    /\ checkpointed' = [createdFiles |-> manifest.createdFiles, disk |-> disk]
    /\ phases' = [phases EXCEPT ![idx + 1].status = PhaseStatusInProgress]
    /\ state' = failState(state, idx)
    /\ files' = NoFiles
    /\ shell' = NoShell
    /\ Return("phase failed")
    /\ UNCHANGED <<manifest, agents, disk, idx, scenario, fileStructure, waited, agentResponse, outsidePlan, ctx, reply,
                   runs, called>>

\* lines 156-159 and 83-95: the agent returns an error
AgentError ==
    /\ pc = "agent"
    /\ waited' = 0
    /\ state' = failState(state, idx)
    /\ UNCHANGED phases
    /\ Return("phase failed")
    /\ UNCHANGED <<manifest, agents, checkpoints, checkpointed, disk, idx, scenario, fileStructure, agentResponse, outsidePlan,
                   ctx, reply, runs, called,
                   files, shell>>

\* lines 156-172: the agent answers; the file blocks of the answer
AgentAnswer ==
    /\ pc = "agent"
    /\ ctx = "live"
    /\ waited < ClientTimeout
    /\ waited' = 0
    /\ \E text \in answerTexts : agentResponse' = [Answer |-> text]
    /\ \E answer \in fileAnswers :
         LET out == processFileBlocks(answer, manifest, phases[idx + 1].name)
         IN  /\ manifest' = out.manifest
             /\ fileStructure' = IF manifest.shared
                                 THEN out.manifest.fileStructure
                                 ELSE fileStructure
             /\ disk' = disk \cup Range(out.written)
             /\ files' = [written |-> out.written, unsafe |-> out.unsafe,
                           existing |-> out.existing, err |-> out.err]
    /\ pc' = "cmds"
    /\ UNCHANGED <<phases, state, saved, agents, checkpoints, checkpointed, idx, scenario,
                   outsidePlan, ctx, reply, result,
                   runs, called, shell>>

\* lines 174-196 and 97-103: the shell blocks of the answer, the tasks, and
\* the end of the phase
PhaseFinish ==
    /\ pc = "cmds"
    /\ agentResponse' = NIL
    /\ \E blocks \in cmdAnswers :
         LET out == processCommandBlocks(blocks)
         IN  /\ shell' = [blocks |-> blocks, launched |-> out.launched,
                           skipped |-> out.skipped, err |-> out.err]
             /\ IF extractionFailsPhase(files.err, out.err)
                THEN /\ state' = failState(state, idx)
                     /\ UNCHANGED <<phases, idx>>
                     /\ Return("phase failed")
                ELSE /\ state' = succeedState(state, idx)
                     /\ phases' = [phases EXCEPT
                                     ![idx + 1] = [markTasks(@, agentResponse.Answer) EXCEPT
                                                     !.status = PhaseStatusCompleted]]
                     /\ idx' = idx + 1
                     /\ pc' = "loop"
                     /\ UNCHANGED <<saved, result>>
    /\ UNCHANGED <<manifest, agents, checkpoints, checkpointed, disk, scenario, fileStructure, waited, outsidePlan, ctx,
                   reply, runs, called, files>>

(***************************************************************************)
(* The /execute command (handleExecuteCommand): the plan is loaded from    *)
(* disk, a plan that completed or failed is reset or left alone, the       *)
(* approval is asked, the approved plan is saved and executed.             *)
(***************************************************************************)
HandleExecuteCommand ==
    /\ pc = "idle"
    /\ scenario.mode = "repl"
    /\ runs < scenario.maxRuns
    /\ manifest' = NIL
    /\ LET plan == LoadPlanState(saved)
       IN  /\ fileStructure' = plan.fileStructure
           /\ \E answer \in {"y", "n"} :
                IF plan.state.status \in
                      {ExecutionStatusCompleted, ExecutionStatusFailed}
                THEN IF answer = "y"
                     THEN /\ state' = resetState(plan.state)
                          /\ phases' = resetPhases(plan.phases)
                          /\ pc' = "approval"
                     ELSE /\ state' = plan.state
                          /\ phases' = plan.phases
                          /\ pc' = "idle"
                ELSE /\ state' = plan.state
                     /\ phases' = plan.phases
                     /\ pc' = "approval"
    /\ result' = "none"
    /\ reply' = "none"
    /\ UNCHANGED <<saved, agents, checkpoints, checkpointed, disk, idx, scenario, waited, agentResponse, outsidePlan,
                   ctx, runs, called,
                   files, shell>>

\* what the user may type at "Approve execution? [y/N/e(dit)]: "; "readerr"
\* stands for a failing ReadString
Replies == {"y", "Y", "yes", "e", "edit", "n", "", "readerr"}

\* strings.TrimSpace(strings.ToLower(response)) on the lines of Replies
normalize(response) == IF response = "Y" THEN "y" ELSE response

approvesUnlessNo(response) == normalize(response) # "n"

\* RequestApproval, case "y", "yes"
approves(response) == normalize(response) \in {"y", "yes"}

editsNever(response) == FALSE

\* RequestApproval, case "e", "edit"
edits(response) == normalize(response) \in {"e", "edit"}

\* ApprovalWorkflow.RequestApproval and the lines 543-558 of the command
RequestApproval ==
    /\ pc = "approval"
    /\ \E response \in Replies :
         /\ reply' = response
         /\ IF response = "readerr"
            THEN /\ UNCHANGED <<state, saved>>
                 /\ pc' = "idle"
            ELSE IF approves(response)
            THEN /\ state' = [state EXCEPT !.status = ExecutionStatusApproved]
                 /\ saved' = SavePlanState(Plan(phases, state', fileStructure))
                 /\ pc' = "approved"
            ELSE IF edits(response)
            THEN /\ UNCHANGED <<state, saved>>
                 /\ pc' = "idle"
            ELSE /\ state' = [state EXCEPT !.status = ExecutionStatusCancelled]
                 /\ UNCHANGED saved
                 /\ pc' = "idle"
    /\ UNCHANGED <<phases, manifest, agents, checkpoints, checkpointed, disk, idx, scenario,
                   fileStructure, waited, agentResponse, outsidePlan, ctx,
                   result, runs, called, files, shell>>

\* The context given to Execute is cancelled while Execute runs. The command
\* passes context.Background(), which nobody cancels.
Cancel ==
    /\ pc \in {"loop", "agent", "cmds"}
    /\ scenario.mode = "api"
    /\ ctx = "live"
    /\ ctx' = "cancelled"
    /\ UNCHANGED <<phases, state, manifest, saved, agents, checkpoints, checkpointed, disk,
                   pc, idx,
                   scenario, fileStructure, waited, agentResponse, outsidePlan, result, runs, called, files, shell, reply>>

\* The process of the command stops while Execute runs: the plan in memory
\* is gone, the file SavePlanState wrote stays.
Stop ==
    /\ pc \in {"loop", "agent", "cmds"}
    /\ scenario.mode = "repl"
    /\ pc' = "idle"
    /\ result' = "stopped"
    /\ UNCHANGED <<phases, state, manifest, saved, agents, checkpoints, checkpointed, disk,
                   idx,
                   scenario, fileStructure, waited, agentResponse, outsidePlan, runs, called, files, shell, ctx, reply>>

\* The agent has not answered yet and five more minutes pass. Execute of
\* the agent gives the context of Execute to the client and does not read
\* request.Timeout; the http client gives up after its own timeout, and
\* then the call returns an error.
Wait ==
    /\ pc = "agent"
    /\ waited < ClientTimeout
    /\ waited' = waited + 1
    /\ UNCHANGED <<phases, state, manifest, saved, agents, checkpoints, checkpointed, disk,
                   pc, idx, scenario, result, runs, called, files, shell, ctx,
                   reply, fileStructure, agentResponse, outsidePlan>>

Next ==
    \/ Execute
    \/ ExecuteFinish
    \/ DependenciesNotMet
    \/ PhaseStart
    \/ PhaseAgentNotFound
    \/ AgentError
    \/ AgentAnswer
    \/ PhaseFinish
    \/ HandleExecuteCommand
    \/ RequestApproval
    \/ Cancel
    \/ Stop
    \/ Wait

Spec == Init /\ [][Next]_vars

\* the steps of Execute on a plan whose phases can all start
ExtractNext ==
    \/ Execute
    \/ ExecuteFinish
    \/ PhaseStart
    \/ AgentError
    \/ AgentAnswer
    \/ PhaseFinish

ExtractSpec == ExtractInit /\ [][ExtractNext]_vars

(***************************************************************************)
(* The inference pool (inference.Pool): Submit puts a request in a         *)
(* buffered channel, worker goroutines take the requests and call the      *)
(* backend under a semaphore, Shutdown closes the channel and waits.       *)
(* A goroutine blocked in a select is parked: the first event that makes   *)
(* one of its cases ready decides the case.                                *)
(***************************************************************************)

\* Request.Context of the id-th request: a context of the caller ("own"),
\* or nil, for which Submit takes p.ctx ("pool"); the callers alternate
ContextKind(id) == IF id % 2 = 1 THEN "own" ELSE "pool"

\* Request.Priority of the id-th request: 0, 1, 1, 0, 0, ...
Priority(id) == (id \div 2) % 2

\* a request as Submit gets it; done: its own context is cancelled
Request(kind, done, priority) ==
    [ctx |-> kind, done |-> done, priority |-> priority,
     submit |-> "none", calls |-> 0, outcome |-> "none"]

\* req.Context.Done() is closed
contextDone(req) ==
    IF req.ctx = "pool" THEN poolCtx = "cancelled" ELSE req.done

\* the cases of the select of Submit that can proceed; default otherwise
submitCases(room, done) ==
    LET ready == (IF room THEN {"enqueue"} ELSE {})
                    \cup (IF done THEN {"cancelled"} ELSE {})
    IN  IF ready = {} THEN {"queue full"} ELSE ready

\* the cases of the select of Submit once p.queue is closed: the send can
\* proceed, and panics
closedCases(done) ==
    {"send on closed channel"} \cup (IF done THEN {"cancelled"} ELSE {})

\* Pool.Submit, lines 175-188; Go picks any of the cases that can proceed
Submit ==
    /\ panic = "none"
    /\ Len(requests) < MaxRequests
    /\ \E done \in BOOLEAN :
         LET id == Len(requests) + 1
             req == Request(ContextKind(id), done, Priority(id))
             cases == IF closed
                      THEN closedCases(contextDone(req))
                      ELSE submitCases(Len(queue) < QueueSize, contextDone(req))
         IN  /\ req.ctx = "pool" => ~done
             /\ \E case \in cases :
                  /\ requests' = Append(requests, [req EXCEPT !.submit = case])
                  /\ queue' = IF case = "enqueue" THEN Append(queue, id) ELSE queue
                  /\ panic' = IF case = "send on closed channel" THEN case ELSE panic
    /\ UNCHANGED <<closed, semaphore, poolCtx, metrics, workers, taken, shutdown>>
    /\ UNCHANGED outsidePool

nextByPriority(q, reqs) ==
    CHOOSE k \in 1..Len(q) :
        \A j \in 1..Len(q) :
            \/ reqs[q[j]].priority < reqs[q[k]].priority
            \/ (reqs[q[j]].priority = reqs[q[k]].priority /\ k <= j)

\* the place in the buffer of the request a receive from p.queue yields
nextInQueue(q, reqs) == 1

\* Pool.worker, lines 93-102: a worker receives a request
Take(w) ==
    /\ panic = "none"
    /\ workers[w].at = "idle"
    /\ queue # <<>>
    /\ LET k == nextInQueue(queue, requests)
       IN  /\ workers' = [workers EXCEPT ![w] = [at |-> "select", req |-> queue[k]]]
           /\ taken' = Append(taken, queue[k])
           /\ queue' = SubSeq(queue, 1, k - 1) \o SubSeq(queue, k + 1, Len(queue))
    /\ UNCHANGED <<closed, semaphore, poolCtx, metrics, requests, shutdown, panic>>
    /\ UNCHANGED outsidePool

\* lines 95-100: p.ctx is done, or the queue is closed and empty
WorkerExit(w) ==
    /\ panic = "none"
    /\ workers[w].at = "idle"
    /\ poolCtx = "cancelled" \/ (closed /\ queue = <<>>)
    /\ workers' = [workers EXCEPT ![w].at = "done"]
    /\ UNCHANGED <<queue, closed, semaphore, poolCtx, metrics, requests, taken,
                   shutdown, panic>>
    /\ UNCHANGED outsidePool

semaphoreHasRoomAlways(tokens) == TRUE

\* a send on p.semaphore can proceed
semaphoreHasRoom(tokens) == tokens < MaxConcurrent

\* the cases of the select of processRequest that can proceed; the
\* goroutine is parked otherwise
semaphoreCases(room, done) ==
    LET ready == (IF room THEN {"acquire"} ELSE {})
                    \cup (IF done THEN {"cancelled"} ELSE {})
    IN  IF ready = {} THEN {"park"} ELSE ready

\* Pool.processRequest, lines 108-120: the select on the semaphore
SemaphoreSelect(w) ==
    /\ panic = "none"
    /\ workers[w].at = "select"
    /\ \E case \in semaphoreCases(semaphoreHasRoom(semaphore),
                                  contextDone(requests[workers[w].req])) :
         /\ workers' = [workers EXCEPT ![w].at =
                           CASE case = "acquire" -> "acquired"
                             [] case = "cancelled" -> "ctxdone"
                             [] OTHER -> "parked"]
         /\ semaphore' = IF case = "acquire" THEN semaphore + 1 ELSE semaphore
    /\ UNCHANGED <<queue, closed, poolCtx, metrics, requests, taken, shutdown, panic>>
    /\ UNCHANGED outsidePool

\* lines 112-119: the wait was cancelled; the callback gets the context's error
WaitCancelled(w) ==
    /\ panic = "none"
    /\ workers[w].at = "ctxdone"
    /\ requests' = [requests EXCEPT ![workers[w].req].outcome = "context error"]
    /\ workers' = [workers EXCEPT ![w] = [at |-> "idle", req |-> 0]]
    /\ UNCHANGED <<queue, closed, semaphore, poolCtx, metrics, taken, shutdown, panic>>
    /\ UNCHANGED outsidePool

\* lines 122-135: CurrentInflight++ under the lock, then the backend is called
StartCall(w) ==
    /\ panic = "none"
    /\ workers[w].at = "acquired"
    /\ metrics' = [metrics EXCEPT !.CurrentInflight = @ + 1]
    /\ requests' = [requests EXCEPT ![workers[w].req].calls = @ + 1]
    /\ workers' = [workers EXCEPT ![w].at = "call"]
    /\ UNCHANGED <<queue, closed, semaphore, poolCtx, taken, shutdown, panic>>
    /\ UNCHANGED outsidePool

updateMetricsTotalOnly(m, success) == [m EXCEPT !.TotalRequests = @ + 1]

\* Pool.updateMetrics, lines 157-166, under p.metrics.mu
updateMetrics(m, success) ==
    [m EXCEPT !.TotalRequests = @ + 1,
              !.CompletedOK = IF success THEN @ + 1 ELSE @,
              !.CompletedError = IF success THEN @ ELSE @ + 1]

\* lines 135-148: GenerateSync returns, with an error when the context of
\* the request is done; the metrics are updated
CallReturns(w) ==
    /\ panic = "none"
    /\ workers[w].at = "call"
    /\ \E success \in BOOLEAN :
         /\ contextDone(requests[workers[w].req]) => ~success
         /\ metrics' = updateMetrics(metrics, success)
         /\ workers' = [workers EXCEPT ![w].at = IF success THEN "callback ok"
                                                 ELSE "callback error"]
    /\ UNCHANGED <<queue, closed, semaphore, poolCtx, requests, taken, shutdown, panic>>
    /\ UNCHANGED outsidePool

\* lines 150-153: the callback gets the result
Callback(w) ==
    /\ panic = "none"
    /\ workers[w].at \in {"callback ok", "callback error"}
    /\ requests' = [requests EXCEPT ![workers[w].req].outcome =
                       IF workers[w].at = "callback ok" THEN "ok" ELSE "error"]
    /\ workers' = [workers EXCEPT ![w].at = "decrement"]
    /\ UNCHANGED <<queue, closed, semaphore, poolCtx, metrics, taken, shutdown, panic>>
    /\ UNCHANGED outsidePool

\* lines 127-131, deferred: CurrentInflight-- under the lock
Decrement(w) ==
    /\ panic = "none"
    /\ workers[w].at = "decrement"
    /\ metrics' = [metrics EXCEPT !.CurrentInflight = @ - 1]
    /\ workers' = [workers EXCEPT ![w].at = "release"]
    /\ UNCHANGED <<queue, closed, semaphore, poolCtx, requests, taken, shutdown, panic>>
    /\ UNCHANGED outsidePool

\* line 111, deferred: a token is received from p.semaphore; a goroutine
\* parked on the send gets the place at once
Release(w) ==
    /\ panic = "none"
    /\ workers[w].at = "release"
    /\ LET parked == {v \in 1..MaxWorkers : workers[v].at = "parked"}
       IN  IF parked = {}
           THEN /\ semaphore' = semaphore - 1
                /\ workers' = [workers EXCEPT ![w] = [at |-> "idle", req |-> 0]]
           ELSE /\ semaphore' = semaphore
                /\ \E v \in parked :
                     workers' = [workers EXCEPT ![w] = [at |-> "idle", req |-> 0],
                                                ![v].at = "acquired"]
    /\ UNCHANGED <<queue, closed, poolCtx, metrics, requests, taken, shutdown, panic>>
    /\ UNCHANGED outsidePool

wakeNobody(ws, rs) == ws

\* the contexts of the requests rs are done: the goroutines parked in the
\* select of processRequest for one of them take the case of line 112
wake(ws, rs) ==
    [w \in DOMAIN ws |->
        IF ws[w].at = "parked" /\ ws[w].req \in rs
        THEN [ws[w] EXCEPT !.at = "ctxdone"] ELSE ws[w]]

\* the requests submitted without a context: Submit gave them p.ctx
poolContextRequests(reqs) == {r \in 1..Len(reqs) : reqs[r].ctx = "pool"}

\* the caller cancels the context of a request the pool holds
CancelRequest ==
    /\ panic = "none"
    /\ \E r \in 1..Len(requests) :
         /\ requests[r].ctx = "own"
         /\ ~requests[r].done
         /\ requests[r].submit = "enqueue"
         /\ requests[r].outcome = "none"
         /\ requests' = [requests EXCEPT ![r].done = TRUE]
         /\ workers' = wake(workers, {r})
    /\ UNCHANGED <<queue, closed, semaphore, poolCtx, metrics, taken, shutdown, panic>>
    /\ UNCHANGED outsidePool

\* Pool.Shutdown, lines 237-250: the queue is closed, the wait begins
ShutdownStart ==
    /\ panic = "none"
    /\ shutdown = "none"
    /\ closed' = TRUE
    /\ shutdown' = "waiting"
    /\ UNCHANGED <<queue, semaphore, poolCtx, metrics, workers, requests, taken, panic>>
    /\ UNCHANGED outsidePool

\* lines 252-255: every worker has returned
ShutdownDone ==
    /\ panic = "none"
    /\ shutdown = "waiting"
    /\ \A w \in 1..MaxWorkers : workers[w].at = "done"
    /\ poolCtx' = "cancelled"
    /\ shutdown' = "nil"
    /\ UNCHANGED <<queue, closed, semaphore, metrics, workers, requests, taken, panic>>
    /\ UNCHANGED outsidePool

\* lines 256-258: the timeout elapses first; p.cancel()
ShutdownTimeout ==
    /\ panic = "none"
    /\ shutdown = "waiting"
    /\ poolCtx' = "cancelled"
    /\ shutdown' = "timeout"
    /\ workers' = wake(workers, poolContextRequests(requests))
    /\ UNCHANGED <<queue, closed, semaphore, metrics, requests, taken, panic>>
    /\ UNCHANGED outsidePool

\* Shutdown is called again, while the first call waits or after it has
\* returned: close(p.queue) on the closed channel
ShutdownAgain ==
    /\ panic = "none"
    /\ closed
    /\ panic' = "close of closed channel"
    /\ UNCHANGED <<queue, closed, semaphore, poolCtx, metrics, workers, requests,
                   taken, shutdown>>
    /\ UNCHANGED outsidePool

\* A pool next to a plan nobody executes.
PoolInit ==
    /\ phases = <<>>
    /\ agents = AgentKinds
    /\ scenario = Scenario("api", 0, "few")
    /\ fileStructure = NIL
    /\ config = DefaultOrchestratorConfig
    /\ agentStr = <<>>
    /\ body = <<>>
    /\ numCPU = 1
    /\ poolConfig = [Workers |-> MaxWorkers, QueueSize |-> QueueSize,
                     MaxConcurrent |-> MaxConcurrent]
    /\ PlanInit

PoolNext ==
    \/ Submit
    \/ \E w \in 1..MaxWorkers : Take(w)
    \/ \E w \in 1..MaxWorkers : WorkerExit(w)
    \/ \E w \in 1..MaxWorkers : SemaphoreSelect(w)
    \/ \E w \in 1..MaxWorkers : WaitCancelled(w)
    \/ \E w \in 1..MaxWorkers : StartCall(w)
    \/ \E w \in 1..MaxWorkers : CallReturns(w)
    \/ \E w \in 1..MaxWorkers : Callback(w)
    \/ \E w \in 1..MaxWorkers : Decrement(w)
    \/ \E w \in 1..MaxWorkers : Release(w)
    \/ CancelRequest
    \/ ShutdownStart
    \/ ShutdownDone
    \/ ShutdownTimeout
    \/ ShutdownAgain

PoolSpec == PoolInit /\ [][PoolNext]_vars

(***************************************************************************)
(* Properties of Execute                                                   *)
(***************************************************************************)

\* Execute has returned nil and nothing has happened since
ReturnedNil == pc = "idle" /\ result = "nil"

completedSet == Range(state.completedPhases)
failedSet == Range(state.failedPhases)

\* C1: whenever Execute returns nil, currentPhase = len(phases), the status
\* is completed, completedPhases has one entry per phase and failedPhases is
\* empty; this is stated to include a resume after an earlier failure.
ClaimC1 ==
    ReturnedNil =>
        /\ state.currentPhase = Len(phases)
        /\ state.status = ExecutionStatusCompleted
        /\ Len(state.completedPhases) = Len(phases)
        /\ state.failedPhases = <<>>

\* C2: completedPhases and failedPhases never share an index, and every
\* index in either is a valid phase index 0..len(phases)-1.
ClaimC2 ==
    /\ completedSet \cap failedSet = {}
    /\ completedSet \cup failedSet \subseteq 0..(Len(phases) - 1)

DependencyCompleted(depID) ==
    \E k \in 1..Len(phases) :
        /\ (k - 1) \in completedSet
        /\ (phases[k].id = depID \/ phases[k].name = depID)

DependenciesCompleted(k) ==
    \A depID \in phases[k].dependencies : DependencyCompleted(depID)

\* the step starts phase k: it checkpoints it and marks it in_progress
StartsPhase(k) ==
    /\ pc = "loop" /\ idx = k - 1
    /\ phases'[k].status = PhaseStatusInProgress
    /\ (k - 1) \in checkpoints'

\* C4: a phase with dependencies goes in_progress only if each dependency
\* matches, by id or by name, a phase whose index is in completedPhases;
\* otherwise the next step of Execute returns the "dependencies not met"
\* error and the agent is not called for that phase.
TheoremC4 ==
    [][ /\ \A k \in 1..Len(phases) :
              (phases[k].dependencies # {} /\ StartsPhase(k))
                  => DependenciesCompleted(k)
        /\ (/\ pc = "loop" /\ idx < Len(phases)
            /\ ~DependenciesCompleted(idx + 1)
            /\ ~Cancel /\ ~Stop)
              => /\ pc' = "idle"
                 /\ result' = "dependencies not met"
                 /\ phases' = phases
                 /\ called' = called
                 /\ idx \notin called'
      ]_vars

\* a phase that depends on its predecessor by name is running
WitnessC4 ==
    \E k \in 2..Len(phases) :
        /\ phases[k].dependencies = {PhaseName(k - 1)}
        /\ phases[k].status = PhaseStatusInProgress
        /\ pc = "agent"

\* some dependency of some phase names no phase of the plan
UnresolvableDependency ==
    \E k \in 1..Len(phases) : \E depID \in phases[k].dependencies :
        \A j \in 1..Len(phases) : phases[j].id # depID /\ phases[j].name # depID

\* C5: a dependency that names no phase of the plan is a hard error before
\* execution: no phase goes in_progress, no agent is called and no file or
\* command side effect happens.
ClaimC5 ==
    UnresolvableDependency =>
        /\ \A k \in 1..Len(phases) : phases[k].status = PhaseStatusPending
        /\ called = {}
        /\ checkpoints = {}
        /\ disk = {}
        /\ shell.launched = <<>>

\* C7: a phase goes pending -> in_progress -> completed or failed; a phase
\* that fails ends failed, and no phase is left in_progress once Execute
\* has returned.
ClaimC7 ==
    (pc = "idle" /\ result # "stopped") =>
        /\ \A k \in 1..Len(phases) : phases[k].status # PhaseStatusInProgress
        /\ \A i \in failedSet : phases[i + 1].status = PhaseStatusFailed

(***************************************************************************)
(* Properties of the extraction of files and shell commands                *)
(***************************************************************************)

\* the agent's answer for phase idx has been processed in full
Extracted == pc # "agent" /\ pc # "cmds"

\* the phase whose answer was processed last has completed and Execute
\* goes on with the next phase
PhaseCompleted ==
    /\ pc = "loop"
    /\ idx > 0
    /\ phases[idx].status = PhaseStatusCompleted
    /\ state.completedPhases # <<>>
    /\ state.completedPhases[Len(state.completedPhases)] = idx - 1
    /\ state.currentPhase = idx
    /\ state.status = ExecutionStatusRunning

manifestPaths ==
    IF manifest = NIL THEN <<>>
    ELSE [k \in 1..Len(manifest.createdFiles) |-> manifest.createdFiles[k].path]

\* C8: no path appears twice in manifest.createdFiles, and a block whose
\* normalized path is already in the manifest is rejected without a write,
\* whether the duplicate comes from the same answer, from the second
\* pattern or from a later phase.
TheoremC8 ==
    /\ NoDuplicates(manifestPaths)
    /\ NoDuplicates(files.written)
    /\ Len(files.written) <= Len(manifestPaths)
    /\ \A k \in 1..Len(files.written) :
          files.written[k] =
              manifestPaths[Len(manifestPaths) - Len(files.written) + k]
    /\ Range(manifestPaths) = disk

\* a block of a later phase was rejected for a path an earlier phase wrote
WitnessC8 ==
    /\ pc = "cmds"
    /\ files.existing \ Range(files.written) # {}

\* the normalized path starts with ".." or with "/"
StartsOutside(p) ==
    \/ p.rooted
    \/ (p.segs # <<>> /\ Head(p.segs) \in {"..", "..a"})

\* C9: a block whose normalized path starts with ".." or "/" is never
\* written and never added to the manifest, and the rejection does not fail
\* the phase, which still completes.
TheoremC9 ==
    /\ \A p \in disk \cup Range(manifestPaths) \cup Range(files.written) :
          ~StartsOutside(p)
    /\ \A b \in FileBlocks :
          StartsOutside(Clean(b.path)) => Clean(b.path) \notin disk
    /\ (files.unsafe # {} /\ ~files.err /\ ~shell.err /\ Extracted)
          => PhaseCompleted

\* blocks for /etc and for d/../../e were rejected, the phase completed
WitnessC9 ==
    /\ {Clean(PathEtc), Clean(PathSneak)} \subseteq files.unsafe
    /\ PhaseCompleted

\* the line contains one of the three denylist patterns
Denylisted(line) ==
    \/ Contains(line, <<"rm", " ", "-rf", " ", "/">>)
    \/ Contains(line, <<"rm", " ", "-rf", " ", "~">>)
    \/ Contains(line, <<":(){ :|:& };:">>)

\* the lines of the shell blocks of the answer, in the order of the text
RECURSIVE Lines(_)
Lines(blocks) ==
    IF blocks = <<>> THEN <<>> ELSE Head(blocks) \o Lines(Tail(blocks))

\* a line that is neither blank, nor a comment, nor denylisted
Runnable(line) ==
    LET cmdStr == TrimSpace(line)
    IN  cmdStr # <<>> /\ Head(cmdStr) # "#" /\ ~Denylisted(cmdStr)

runnableLines ==
    LET sel == SelectSeq(Lines(shell.blocks), Runnable)
    IN  [k \in 1..Len(sel) |-> TrimSpace(sel[k])]

\* C10: no line that contains a denylist pattern is ever executed; such a
\* line is skipped, the other lines are still run in order, and the skip
\* does not make the phase fail.
TheoremC10 ==
    /\ \A k \in 1..Len(shell.launched) : ~Denylisted(shell.launched[k])
    /\ \A k \in 1..Len(shell.skipped) : Denylisted(shell.skipped[k])
    /\ Len(shell.launched) <= Len(runnableLines)
    /\ shell.launched = SubSeq(runnableLines, 1, Len(shell.launched))
    /\ ~shell.err => shell.launched = runnableLines
    /\ (shell.skipped # <<>> /\ ~shell.err /\ ~files.err /\ Extracted)
          => PhaseCompleted

\* "sudo rm -rf ~" was skipped and the "ls" after it in the block was run
WitnessC10 ==
    /\ shell.blocks = <<<<CmdSudoRmHome, CmdLs>>>>
    /\ shell.skipped = <<CmdSudoRmHome>>
    /\ shell.launched = <<CmdLs>>
    /\ PhaseCompleted

(***************************************************************************)
(* Properties of resuming, cancelling, saving and approving               *)
(***************************************************************************)

\* the step is the entry of Execute
EntersExecute == pc \in {"idle", "approved"} /\ pc' = "loop"

\* Execute is running
Running == pc \in {"loop", "agent", "cmds"}

\* the state of a plan all of whose phases completed
FullCompletion ==
    /\ state.status = ExecutionStatusCompleted
    /\ state.currentPhase = Len(phases)
    /\ state.completedPhases = [k \in 1..Len(phases) |-> k - 1]
    /\ state.completedAt # NIL
    /\ \A k \in 1..Len(phases) : phases[k].status = PhaseStatusCompleted

ReturnedCancelled ==
    /\ pc = "idle"
    /\ ctx = "cancelled"
    /\ result = "phase failed"
    /\ phases[idx + 1].agent \in agents

\* C12: when the context is cancelled after phase i-1 completed and before
\* phase i completes, Execute returns with status running, currentPhase = i
\* and i not in failedPhases (and the next Execute resumes at i).
ClaimC12 ==
    ReturnedCancelled =>
        /\ state.status = ExecutionStatusRunning
        /\ state.currentPhase = idx
        /\ idx \notin failedSet

\* the process of the /execute command stopped while Execute was running
Stopped == scenario.mode = "repl" /\ pc = "idle" /\ result = "stopped"

\* C13: the plan is written to disk at every transition of its execution,
\* so after the process stopped with k phases of the run completed, the
\* saved plan has these k phases in completedPhases and currentPhase = k
\* (and the next /execute resumes at k).
ClaimC13 ==
    Stopped =>
        /\ LoadPlanState(saved).state.completedPhases = state.completedPhases
        /\ LoadPlanState(saved).state.currentPhase = state.currentPhase

\* the lines that read y or yes once trimmed and lowered
Yes == {"y", "Y", "yes"}

\* the step runs something of the plan: a phase goes in_progress (other
\* than by loading the saved plan), a file is written or a shell command is
\* launched
RunsSomething ==
    \/ \E k \in 1..Len(phases) :
          /\ phases'[k].status = PhaseStatusInProgress
          /\ phases[k].status # PhaseStatusInProgress
          /\ phases' # LoadPlanState(saved).phases
    \/ disk' # disk
    \/ checkpoints' # checkpoints
    \/ called' \ called # {}
    \/ (shell'.launched # <<>> /\ shell'.launched # shell.launched)

\* C14: in the /execute command no phase goes in_progress, no file is
\* written and no command is run unless RequestApproval returned true in
\* this invocation and the status was set to approved; every other answer,
\* and a read error, leave every phase as it was.
TheoremC14 ==
    /\ [][ scenario.mode = "repl" =>
             /\ EntersExecute
                  => /\ pc = "approved"
                     /\ reply \in Yes
                     /\ state.status = ExecutionStatusApproved
             /\ RunsSomething => (Running /\ reply \in Yes)
             /\ (pc = "approval" /\ reply' \notin Yes)
                  => /\ pc' = "idle"
                     /\ phases' = phases
                     /\ runs' = runs
                     /\ disk' = disk
         ]_vars
    /\ [](scenario.mode = "repl" /\ (Running \/ pc = "approved") => reply \in Yes)

\* the command was approved with "yes" and the first phase has written a file
WitnessC14 ==
    /\ scenario.mode = "repl"
    /\ reply = "yes"
    /\ pc = "cmds"
    /\ files.written # <<>>

(***************************************************************************)
(* Properties of the inference pool                                        *)
(***************************************************************************)

Workers == 1..MaxWorkers

\* the workers inside p.client.GenerateSync
InBackend == {w \in Workers : workers[w].at = "call"}

\* C15: with a semaphore smaller than the number of workers, the requests
\* inside the backend call and the metric CurrentInflight are at most the
\* size of the semaphore in every state, and CurrentInflight is never
\* negative.
TheoremC15 ==
    /\ MaxConcurrent < MaxWorkers
    /\ Cardinality(InBackend) <= MaxConcurrent
    /\ metrics.CurrentInflight <= MaxConcurrent
    /\ metrics.CurrentInflight >= 0

\* the semaphore is full, a request is in the backend, a worker is parked
WitnessC15 ==
    /\ Cardinality(InBackend) = MaxConcurrent
    /\ metrics.CurrentInflight = MaxConcurrent
    /\ \E w \in Workers : workers[w].at = "parked"

\* the step is a call of Submit; the request is the last of requests'
Submits == Len(requests') = Len(requests) + 1

\* C16: Submit never blocks; a request whose context is already cancelled
\* gets the context's error and is not enqueued; otherwise, when the queue
\* holds QueueSize requests, it gets "queue full" and is not enqueued;
\* otherwise it is enqueued and Submit returns nil.
ClaimC16 ==
    [][ Submits =>
          LET id == Len(requests')
              req == requests'[id]
          IN  IF req.ctx = "own" /\ req.done
              THEN req.submit = "cancelled" /\ queue' = queue
              ELSE IF Len(queue) >= QueueSize
              THEN req.submit = "queue full" /\ queue' = queue
              ELSE req.submit = "enqueue" /\ queue' = Append(queue, id)
      ]_vars

\* the requests Submit accepted, in the order of acceptance
accepted ==
    LET ids == [k \in 1..Len(requests) |-> k]
        Enqueued(k) == requests[k].submit = "enqueue"
    IN  SelectSeq(ids, Enqueued)

\* C17: Shutdown closes the queue and waits; when it returns nil every
\* request accepted before has been processed; when the timeout elapses it
\* returns an error and every request still in the backend is cancelled,
\* whatever context it was submitted with.
ClaimC17 ==
    /\ shutdown # "none" => closed
    /\ shutdown = "nil" =>
          \A k \in 1..Len(accepted) : requests[accepted[k]].outcome # "none"
    /\ shutdown = "timeout" =>
          \A w \in InBackend : contextDone(requests[workers[w].req])

\* req.Context.Done() of request r is closed after the step
contextDoneNext(r) ==
    IF requests[r].ctx = "pool" THEN poolCtx' = "cancelled"
                                ELSE requests'[r].done

\* worker w returns from processRequest through the ctx.Done() case
LeavesWait(w) == workers[w].at = "ctxdone" /\ workers'[w].at # "ctxdone"

\* C18: a request whose context is cancelled while it waits for a semaphore
\* slot is answered with the context's error, the backend is not called and
\* the in-flight count and the semaphore are not touched; an error of the
\* backend is stored in the result, and the backend is called exactly once
\* for a request, without retry.
TheoremC18 ==
    /\ [][ \A w \in Workers :
             LET r == workers[w].req
             IN  /\ (/\ workers[w].at = "parked"
                     /\ ~contextDone(requests[r])
                     /\ contextDoneNext(r)) => workers'[w].at = "ctxdone"
                 /\ LeavesWait(w) =>
                       /\ requests'[r].outcome = "context error"
                       /\ requests'[r].calls = 0
                       /\ metrics' = metrics
                       /\ semaphore' = semaphore
                 /\ (/\ workers[w].at = "callback error"
                     /\ workers'[w].at # "callback error") =>
                       requests'[r].outcome = "error"
       ]_vars
    /\ [](\A r \in 1..Len(requests) :
             /\ requests[r].calls <= 1
             /\ requests[r].outcome = "context error" => requests[r].calls = 0
             /\ requests[r].outcome \in {"ok", "error"} =>
                   requests[r].calls = 1)

\* a request was answered with the context's error while the semaphore was
\* held by another request, and a backend error was stored for a request
WitnessC18 ==
    /\ \E r \in 1..Len(requests) :
         /\ requests[r].outcome = "context error"
         /\ requests[r].ctx = "own"
    /\ \E r \in 1..Len(requests) : requests[r].outcome = "error"
    /\ semaphore = MaxConcurrent

\* C19: the workers take the requests in the order Submit accepted them,
\* whatever their Priority.
TheoremC19 ==
    /\ Len(taken) <= Len(accepted)
    /\ taken = SubSeq(accepted, 1, Len(taken))

\* a request of higher priority was queued behind one of lower priority and
\* taken after it
WitnessC19 ==
    /\ Len(taken) >= 2
    /\ requests[taken[1]].priority < requests[taken[2]].priority
    /\ requests[taken[1]].outcome = "none"

\* the requests whose callback was called with a result of the backend
answered(outcomes) ==
    {r \in 1..Len(requests) : requests[r].outcome \in outcomes}

\* C20: TotalRequests = CompletedOK + CompletedError in every state, and
\* when a caller of SubmitSync holds a result without error the metrics
\* already count that request.
TheoremC20 ==
    /\ metrics.TotalRequests = metrics.CompletedOK + metrics.CompletedError
    /\ Cardinality(answered({"ok"})) <= metrics.CompletedOK
    /\ Cardinality(answered({"error"})) <= metrics.CompletedError
    /\ Cardinality(answered({"ok", "error"})) <= metrics.TotalRequests

\* one request was answered without error and one with an error
WitnessC20 ==
    /\ answered({"ok"}) # {}
    /\ answered({"error"}) # {}
    /\ metrics.CompletedOK >= 1
    /\ metrics.CompletedError >= 1

(***************************************************************************)
(* The routing cache (routing_cache.go).  A query is a sequence of         *)
(* characters; Get, Set and the sweep of cleanup hold c.mu while they run, *)
(* so each is one step, taken at the time it holds the lock.               *)
(***************************************************************************)
\* the queries given to the cache: two keys in four spellings
Queries == {<<"a">>, <<" ", "A">>, <<"b">>, <<"B", " ">>}

\* strings.ToLower
ToLower(q) ==
    [k \in 1..Len(q) |-> CASE q[k] = "A" -> "a" [] q[k] = "B" -> "b"
                            [] OTHER -> q[k]]

\* normalizeQuery, lines 80-82
normalizeQuery(q) == ToLower(TrimSpace(q))

\* the decisions the classifier caches: a models.AgentType and a confidence,
\* in tenths
Decisions == {<<"code", 9>>, <<"data", 5>>, <<"data", 9>>}

\* CachedRoute, lines 12-16
CachedRoute(agentType, confidence, cachedAt) ==
    [AgentType |-> agentType, Confidence |-> confidence, CachedAt |-> cachedAt]

\* m[key] = value on a Go map
MapPut(m, key, value) ==
    [k \in DOMAIN m \cup {key} |-> IF k = key THEN value ELSE m[k]]

\* delete(m, key) for the keys of dead
MapDelete(m, dead) == [k \in DOMAIN m \ dead |-> m[k]]

validWithinOrAtTTL(route, now) == now - route.CachedAt <= TTL

\* Get, line 43: time.Since(route.CachedAt) < c.ttl
valid(route, now) == now - route.CachedAt < TTL

\* cleanup, line 71: now.Sub(route.CachedAt) > c.ttl
expired(route, now) == now - route.CachedAt > TTL

\* RoutingCache.Get, lines 37-48
Get(query) ==
    /\ LET key == normalizeQuery(query)
       IN  got' = IF key \in DOMAIN cache /\ valid(cache[key], clock)
                  THEN [ok |-> TRUE, route |-> cache[key]]
                  ELSE [ok |-> FALSE, route |-> NIL]
    /\ UNCHANGED <<cache, clock, ticker, lastSet>>
    /\ UNCHANGED outsideCache

\* RoutingCache.Set, lines 51-60
Set(query, agentType, confidence) ==
    /\ LET key == normalizeQuery(query)
           route == CachedRoute(agentType, confidence, clock)
       IN  /\ cache' = MapPut(cache, key, route)
           /\ lastSet' = MapPut(lastSet, key, route)
    /\ UNCHANGED <<clock, ticker, got>>
    /\ UNCHANGED outsideCache

\* cleanup, lines 67-76: one round of the loop over ticker.C
Sweep ==
    /\ ticker
    /\ ticker' = FALSE
    /\ cache' = MapDelete(cache,
                    {key \in DOMAIN cache : expired(cache[key], clock)})
    /\ UNCHANGED <<clock, got, lastSet>>
    /\ UNCHANGED outsideCache

\* time passes; the ticker of line 64 fires every ttl and keeps one tick
Advance ==
    /\ clock < MaxTime
    /\ clock' = clock + 1
    /\ ticker' = (ticker \/ clock' % TTL = 0)
    /\ UNCHANGED <<cache, got, lastSet>>
    /\ UNCHANGED outsideCache

CacheInit ==
    /\ phases = <<>>
    /\ agents = AgentKinds
    /\ scenario = Scenario("api", 0, "few")
    /\ fileStructure = NIL
    /\ config = DefaultOrchestratorConfig
    /\ agentStr = <<>>
    /\ body = <<>>
    /\ numCPU = 1
    /\ poolConfig = NIL
    /\ PlanInit

CacheNext ==
    \/ \E query \in Queries : Get(query)
    \/ \E query \in Queries, decision \in Decisions :
          Set(query, decision[1], decision[2])
    \/ Sweep
    \/ Advance

CacheSpec == CacheInit /\ [][CacheNext]_vars

(***************************************************************************)
(* Properties of the routing cache                                         *)
(***************************************************************************)

\* C21: a Get less than TTL after the most recent Set on the normalized key
\* of its query returns the agent kind and the confidence of that Set, and
\* Get never returns an entry whose age is TTL or more, whatever Set, Get
\* and the sweep did before.
TheoremC21 ==
    [][ \A query \in Queries : Get(query) =>
          LET key == normalizeQuery(query)
          IN  /\ (key \in DOMAIN lastSet /\ clock - lastSet[key].CachedAt < TTL)
                    => /\ got'.ok
                       /\ got'.route.AgentType = lastSet[key].AgentType
                       /\ got'.route.Confidence = lastSet[key].Confidence
              /\ got'.ok => /\ clock - got'.route.CachedAt < TTL
                            /\ key \in DOMAIN lastSet
                            /\ got'.route = lastSet[key]
      ]_vars

\* a Get was answered, some time after its Set, from an entry younger than
\* TTL, while the sweep has removed the entry of another key
WitnessC21 ==
    /\ got.ok
    /\ got.route.CachedAt > TTL
    /\ got.route.CachedAt < clock
    /\ \E key \in DOMAIN lastSet : key \notin DOMAIN cache

(***************************************************************************)
(* Properties of SavePlanState and LoadPlanState                           *)
(***************************************************************************)

\* C22: in every state a plan reaches through planning, approval, execution
\* and reset, LoadPlanState after SavePlanState yields a plan equal to the
\* plan saved in every field but the manifest: phases, tasks, state (nil and
\* empty slices, nil and set times) and file structure.
ClaimC22 ==
    LET plan == Plan(phases, state, fileStructure)
    IN  LoadPlanState(SavePlanState(plan)) = plan

(***************************************************************************)
(* Properties of RequestApproval                                           *)
(***************************************************************************)

\* C23: RequestApproval changes nothing of the plan but State.Status: the
\* answer y or yes (in any case) sets it to approved and true is returned,
\* the answer e or edit leaves it and false is returned, any other answer
\* sets it to cancelled and false is returned; a line that cannot be read
\* changes nothing; phases, tasks, the state lists and the file structure
\* stay as they are.
TheoremC23 ==
    [][ RequestApproval =>
          /\ phases' = phases
          /\ fileStructure' = fileStructure
          /\ state' = [state EXCEPT !.status = state'.status]
          /\ reply' \in {"y", "Y", "yes"} =>
                /\ state'.status = ExecutionStatusApproved
                /\ pc' = "approved"
          /\ reply' \in {"e", "edit", "readerr"} =>
                /\ state'.status = state.status
                /\ pc' = "idle"
          /\ reply' \in {"n", ""} =>
                /\ state'.status = ExecutionStatusCancelled
                /\ pc' = "idle"
      ]_vars

\* a plan with a completed phase was refused: it is cancelled and keeps its
\* list of completed phases
WitnessC23 ==
    /\ reply = "n"
    /\ pc = "idle"
    /\ state.status = ExecutionStatusCancelled
    /\ state.completedPhases # <<>>

(***************************************************************************)
(* The orchestrator (orchestrator.go): executeParallel on a list of agents *)
(* and the choice of the final response in Execute.  A confidence is a     *)
(* number of hundredths.                                                    *)
(***************************************************************************)
ConfidenceValues == {50, 80, 85}

\* DetectConflict, line 248: 0.3
ConflictThreshold == 30

\* the Response of the agent at index g
Response(g, confidence) == [agent |-> g, confidence |-> confidence]

\* the error of the agent at index g
AgentFailed(g) == [agent |-> g]

\* "all agents failed", line 214
AllAgentsFailed == [agent |-> 0]

\* what a.Execute(ctx, request) of the agent at index g may return
Outcomes(g) ==
    {[response |-> Response(g, c), error |-> NIL] : c \in ConfidenceValues}
        \cup {[response |-> NIL, error |-> AgentFailed(g)],
              [response |-> NIL, error |-> NIL]}

\* lines 183-194: Execute calls executeParallel on n agents; a goroutine is
\* started for each, its slots of responses and errors are nil
ExecuteParallel(n) ==
    /\ execPc = "idle"
    /\ fanout' = [g \in 1..n |->
                    [at |-> "running", response |-> NIL, error |-> NIL]]
    /\ execPc' = "wait"
    /\ UNCHANGED <<config, collected, finalResponse>>
    /\ UNCHANGED outsideOrch

\* agents.go, lines 51-70: Execute of the agent of goroutine g builds its
\* prompt and calls a.client.Generate or a.client.GenerateSync: the backend
\* call is made on the inference client itself
AgentGenerates(g) ==
    /\ g \in 1..Len(fanout)
    /\ fanout[g].at = "running"
    /\ fanout' = [fanout EXCEPT ![g].at = "generating"]
    /\ UNCHANGED <<config, execPc, collected, finalResponse>>
    /\ UNCHANGED outsideOrch

\* lines 188-193: the agent of goroutine g returns, the goroutine fills
\* its slots and is done
AgentReturns(g) ==
    /\ g \in 1..Len(fanout)
    /\ fanout[g].at = "generating"
    /\ \E out \in Outcomes(g) :
         fanout' = [fanout EXCEPT ![g] = [at |-> "done",
                                            response |-> out.response,
                                            error |-> out.error]]
    /\ UNCHANGED <<config, execPc, collected, finalResponse>>
    /\ UNCHANGED outsideOrch

waitForAny(slots) == \E g \in 1..Len(slots) : slots[g].at = "done"

\* wg.Wait(), line 196, returns
waitDone(slots) == \A g \in 1..Len(slots) : slots[g].at = "done"

\* lines 199-208: the loop that collects the responses and the first error
RECURSIVE collect(_, _, _, _)
collect(slots, i, validResponses, firstError) ==
    IF i > Len(slots)
    THEN [responses |-> validResponses, error |-> firstError]
    ELSE collect(slots, i + 1,
                 IF slots[i].response # NIL
                 THEN Append(validResponses, slots[i].response)
                 ELSE validResponses,
                 IF slots[i].error # NIL /\ firstError = NIL
                 THEN slots[i].error
                 ELSE firstError)

\* lines 199-217: what executeParallel returns
parallelResult(slots) ==
    LET loop == collect(slots, 1, <<>>, NIL)
    IN  IF Len(loop.responses) = 0
        THEN [responses |-> <<>>,
              error |-> IF loop.error # NIL THEN loop.error ELSE AllAgentsFailed]
        ELSE [responses |-> loop.responses, error |-> NIL]

\* lines 196-217: executeParallel returns
Collect ==
    /\ execPc = "wait"
    /\ waitDone(fanout)
    /\ collected' = parallelResult(fanout)
    /\ execPc' = "collected"
    /\ UNCHANGED <<config, fanout, finalResponse>>
    /\ UNCHANGED outsideOrch

\* DetectConflict, lines 235-245: the loop over responses[1:]
RECURSIVE confidenceRange(_, _, _, _)
confidenceRange(responses, i, minConf, maxConf) ==
    IF i > Len(responses)
    THEN [minConf |-> minConf, maxConf |-> maxConf]
    ELSE confidenceRange(responses, i + 1,
             IF responses[i].confidence < minConf
             THEN responses[i].confidence ELSE minConf,
             IF responses[i].confidence > maxConf
             THEN responses[i].confidence ELSE maxConf)

\* SimpleConflictResolver.DetectConflict, lines 229-249
DetectConflict(responses) ==
    IF Len(responses) < 2
    THEN FALSE
    ELSE LET r == confidenceRange(responses, 2, responses[1].confidence,
                                  responses[1].confidence)
         IN  r.maxConf - r.minConf > ConflictThreshold

\* Resolve, lines 258-263: the loop over responses[1:]
RECURSIVE bestResponse(_, _, _)
bestResponse(responses, i, best) ==
    IF i > Len(responses)
    THEN best
    ELSE bestResponse(responses, i + 1,
             IF responses[i].confidence > best.confidence
             THEN responses[i] ELSE best)

ResolveFirst(responses) == responses[1]

\* SimpleConflictResolver.Resolve, lines 252-266, on a list that is not empty
Resolve(responses) == bestResponse(responses, 2, responses[1])

\* Execute, lines 140-162: the error of the execution, or the final response
HandleResponses ==
    /\ execPc = "collected"
    /\ finalResponse' =
         IF collected.error # NIL
         THEN [response |-> NIL, error |-> collected.error]
         ELSE LET responses == collected.responses
              IN  [response |->
                      IF Len(responses) = 1
                      THEN responses[1]
                      ELSE IF config.ConflictResolution
                                /\ DetectConflict(responses)
                      THEN Resolve(responses)
                      ELSE responses[1],
                   error |-> NIL]
    /\ execPc' = "returned"
    /\ UNCHANGED <<config, fanout, collected>>
    /\ UNCHANGED outsideOrch

OrchInit ==
    /\ phases = <<>>
    /\ agents = AgentKinds
    /\ scenario = Scenario("api", 0, "few")
    /\ fileStructure = NIL
    /\ \E resolution \in BOOLEAN : config = [ConflictResolution |-> resolution]
    /\ agentStr = <<>>
    /\ body = <<>>
    /\ numCPU = 1
    /\ poolConfig = NIL
    /\ PlanInit

OrchNext ==
    \/ \E n \in 1..MaxAgents : ExecuteParallel(n)
    \/ \E g \in 1..MaxAgents : AgentGenerates(g)
    \/ \E g \in 1..MaxAgents : AgentReturns(g)
    \/ Collect
    \/ HandleResponses

OrchSpec == OrchInit /\ [][OrchNext]_vars

(***************************************************************************)
(* Properties of the orchestrator                                          *)
(***************************************************************************)

\* the confidences of a list of responses
confidences(responses) ==
    {responses[k].confidence : k \in 1..Len(responses)}

Max(S) == CHOOSE x \in S : \A y \in S : y <= x

Min(S) == CHOOSE x \in S : \A y \in S : x <= y

\* max confidence - min confidence > 0.3
Conflict(responses) ==
    Max(confidences(responses)) - Min(confidences(responses)) > ConflictThreshold

\* the earliest response of maximal confidence
EarliestBest(responses) ==
    LET k == CHOOSE k \in 1..Len(responses) :
                /\ responses[k].confidence = Max(confidences(responses))
                /\ \A j \in 1..(k - 1) :
                      responses[j].confidence < responses[k].confidence
    IN  responses[k]

\* C24: on two or more responses a conflict is detected exactly when the
\* largest and the smallest confidence differ by more than 0.3; with conflict
\* resolution enabled and a conflict detected Execute returns the earliest
\* response of maximal confidence, in every other case, a single response
\* included, the first response.
TheoremC24 ==
    (execPc = "returned" /\ collected.error = NIL) =>
        LET responses == collected.responses
        IN  /\ Len(responses) >= 2 =>
                  (DetectConflict(responses) <=> Conflict(responses))
            /\ finalResponse.error = NIL
            /\ finalResponse.response =
                  IF /\ Len(responses) >= 2
                     /\ config.ConflictResolution
                     /\ Conflict(responses)
                  THEN EarliestBest(responses)
                  ELSE responses[1]

\* a conflict among three responses, two of them of the maximal confidence,
\* none of them the first
WitnessC24 ==
    /\ execPc = "returned"
    /\ collected.error = NIL
    /\ Len(collected.responses) = 3
    /\ collected.responses[2].confidence = collected.responses[3].confidence
    /\ finalResponse.response = collected.responses[2]
    /\ finalResponse.response # collected.responses[1]

\* the indices of the agents that returned a response, and an error
Produced == {g \in 1..Len(fanout) : fanout[g].response # NIL}

Failing == {g \in 1..Len(fanout) : fanout[g].error # NIL}

\* the responses of the agents of Produced, in the order of the agents
RECURSIVE InAgentOrder(_)
InAgentOrder(S) ==
    IF S = {} THEN <<>>
    ELSE <<fanout[Min(S)].response>> \o InAgentOrder(S \ {Min(S)})

\* C25: executeParallel returns when every agent has returned; it returns
\* the responses produced, in the order of the agents; it returns an error
\* only if no agent produced a response, and then the error of the failing
\* agent of lowest index; whatever the order in which the agents finish.
TheoremC25 ==
    execPc \in {"collected", "returned"} =>
        /\ \A g \in 1..Len(fanout) : fanout[g].at = "done"
        /\ collected.responses = InAgentOrder(Produced)
        /\ collected.error # NIL <=> Produced = {}
        /\ (Produced = {} /\ Failing # {}) =>
              collected.error = AgentFailed(Min(Failing))

\* the first of three agents failed, the others produced a response
WitnessC25 ==
    /\ execPc = "collected"
    /\ Len(fanout) = 3
    /\ Failing = {1}
    /\ Produced = {2, 3}
    /\ collected.error = NIL

(***************************************************************************)
(* The registry of the orchestrator (orchestrator.go, lines 48-96).        *)
(* RegisterAgent and GetAgents run under o.mu; Route classifies the query  *)
(* without the lock and then reads o.agents under it.  The agent given to  *)
(* the n-th call of RegisterAgent is the agent n.                          *)
(***************************************************************************)
existsNever(registryMap, agentType) == FALSE

\* line 57: _, exists := o.agents[agentType]
exists(registryMap, agentType) == agentType \in DOMAIN registryMap

\* what RegisterAgent is given in place of a kind when the agent is nil
NilAgent == "nil"

\* AgentOrchestrator.RegisterAgent, lines 48-63
RegisterAgent(agentType) ==
    /\ Len(registered) < MaxRegistrations
    /\ LET agent == Len(registered) + 1
           refused == agentType = NilAgent \/ exists(registry, agentType)
       IN  /\ registry' = IF refused THEN registry
                          ELSE MapPut(registry, agentType, agent)
           /\ registered' = Append(registered,
                                   [agentType |-> agentType, err |-> refused])
    /\ agents' = DOMAIN registry'
    /\ UNCHANGED <<routing, routed, listed>>
    /\ UNCHANGED outsideRegistry

\* AgentOrchestrator.GetAgents, lines 66-75
GetAgents ==
    /\ listed' = [agents |-> {registry[kind] : kind \in DOMAIN registry}]
    /\ UNCHANGED <<agents, registry, registered, routing, routed>>
    /\ UNCHANGED outsideRegistry

\* Route, lines 80-83: the classifier answers with a kind, or fails
RouteClassify ==
    /\ routing = NIL
    /\ \/ \E agentType \in AgentKinds :
            /\ routing' = [agentType |-> agentType]
            /\ UNCHANGED routed
       \/ /\ routed' = [agent |-> NIL, err |-> "classification failed"]
          /\ UNCHANGED routing
    /\ UNCHANGED <<agents, registry, registered, listed>>
    /\ UNCHANGED outsideRegistry

\* Route, lines 86-95: the agent of the kind, or an error
RouteLookup ==
    /\ routing # NIL
    /\ routed' = IF exists(registry, routing.agentType)
                 THEN [agent |-> registry[routing.agentType], err |-> "nil"]
                 ELSE [agent |-> NIL, err |-> "no agent registered"]
    /\ routing' = NIL
    /\ UNCHANGED <<agents, registry, registered, listed>>
    /\ UNCHANGED outsideRegistry

RegistryInit ==
    /\ phases = <<>>
    /\ agents = {}
    /\ scenario = Scenario("api", 0, "few")
    /\ fileStructure = NIL
    /\ config = DefaultOrchestratorConfig
    /\ agentStr = <<>>
    /\ body = <<>>
    /\ numCPU = 1
    /\ poolConfig = NIL
    /\ PlanInit

RegistryNext ==
    \/ \E agentType \in AgentKinds \cup {NilAgent} : RegisterAgent(agentType)
    \/ GetAgents
    \/ RouteClassify
    \/ RouteLookup

RegistrySpec == RegistryInit /\ [][RegistryNext]_vars

(***************************************************************************)
(* Properties of the registry                                              *)
(***************************************************************************)

\* the calls of RegisterAgent that gave an agent of this kind
CallsFor(agentType) ==
    {n \in 1..Len(registered) : registered[n].agentType = agentType}

\* C26: RegisterAgent returns an error and leaves the registry as it is
\* when an agent of the same kind is registered already; whatever the order
\* of the calls of RegisterAgent, Route and GetAgents, the registry holds for
\* each kind the first agent registered for it and nothing else; Route for
\* a kind without agent returns an error.
TheoremC26 ==
    /\ [](\A n \in 1..Len(registered) :
             LET agentType == registered[n].agentType
             IN  agentType # NilAgent =>
                   /\ registered[n].err <=> Min(CallsFor(agentType)) < n
                   /\ agentType \in DOMAIN registry
                   /\ registry[agentType] = Min(CallsFor(agentType)))
    /\ [](\A agentType \in DOMAIN registry : CallsFor(agentType) # {})
    /\ [][ /\ (Len(registered') > Len(registered)
                /\ registered'[Len(registered')].err) => registry' = registry
           /\ RouteLookup =>
                IF routing.agentType \in DOMAIN registry
                THEN /\ routed'.err = "nil"
                     /\ routed'.agent = Min(CallsFor(routing.agentType))
                ELSE /\ routed'.err # "nil"
                     /\ routed'.agent = NIL
       ]_vars

\* the second agent of a kind was refused, and a Route that was classified
\* before an agent of its kind was registered found that agent
WitnessC26 ==
    /\ \E n \in 2..Len(registered) :
          registered[n].err /\ registered[n].agentType # NilAgent
    /\ routed # NIL
    /\ routed.err = "nil"
    /\ routed.agent = Len(registered)

(***************************************************************************)
(* normalizeAgentType (classifier.go, lines 141-160).  A string is a       *)
(* sequence of pieces, each a word in some case or a space.                *)
(***************************************************************************)
Pieces == {"code", "Code", "data", "infra", "sec", "SEC", "urity", "agent",
           "Agent", "none", " "}

\* strings.ToLower on a piece
lowerPiece(piece) ==
    CASE piece = "Code" -> "code"
      [] piece = "SEC" -> "sec"
      [] piece = "Agent" -> "agent"
      [] OTHER -> piece

\* strings.ToLower(strings.TrimSpace(agentStr)), line 144
normalizedLabel(str) ==
    LET trimmed == TrimSpace(str)
    IN  [k \in 1..Len(trimmed) |-> lowerPiece(trimmed[k])]

\* the string of a models.AgentType
AgentTypeString(kind) == <<kind>>

fallbackNone == "none"

\* the default case, lines 153-158: models.AgentTypeCode
fallback == "code"

\* normalizeAgentType, lines 143-159
normalizeAgentType(str) ==
    LET normalized == normalizedLabel(str)
    IN  CASE normalized \in {<<"code">>, <<"code", "agent">>} -> "code"
          [] normalized \in {<<"data">>, <<"data", "agent">>} -> "data"
          [] normalized \in {<<"infra">>, <<"infra", "agent">>} -> "infra"
          [] normalized \in {<<"sec">>, <<"sec", "agent">>, <<"sec", "urity">>}
                -> "sec"
          [] OTHER -> fallback

\* the classifier normalizes the agent named in the routing decision
Normalize ==
    /\ normalizedType = ""
    /\ normalizedType' = normalizeAgentType(agentStr)
    /\ UNCHANGED <<agentStr, normalizedAgain>>
    /\ UNCHANGED outsideClassifier

\* the result is normalized once more
NormalizeAgain ==
    /\ normalizedType # ""
    /\ normalizedAgain = ""
    /\ normalizedAgain' = normalizeAgentType(AgentTypeString(normalizedType))
    /\ UNCHANGED <<agentStr, normalizedType>>
    /\ UNCHANGED outsideClassifier

ClassifierInit ==
    /\ phases = <<>>
    /\ agents = AgentKinds
    /\ scenario = Scenario("api", 0, "few")
    /\ fileStructure = NIL
    /\ config = DefaultOrchestratorConfig
    /\ agentStr \in SeqsUpTo(Pieces, MaxPieces)
    /\ body = <<>>
    /\ numCPU = 1
    /\ poolConfig = NIL
    /\ PlanInit

ClassifierNext ==
    \/ Normalize
    \/ NormalizeAgain

ClassifierSpec == ClassifierInit /\ [][ClassifierNext]_vars

(***************************************************************************)
(* Properties of normalizeAgentType                                        *)
(***************************************************************************)

\* the labels normalizeAgentType recognises, after trimming and lowering
RecognisedLabels ==
    {<<"code">>, <<"code", "agent">>, <<"data">>, <<"data", "agent">>,
     <<"infra">>, <<"infra", "agent">>, <<"sec">>, <<"sec", "agent">>,
     <<"sec", "urity">>}

\* C27: normalizeAgentType maps every string into {code, data, infra, sec},
\* every string that is not a recognised label to code, and applying it to
\* its own result gives that result again.
TheoremC27 ==
    /\ normalizedType # "" =>
          /\ normalizedType \in {"code", "data", "infra", "sec"}
          /\ normalizedLabel(agentStr) \notin RecognisedLabels =>
                normalizedType = "code"
    /\ normalizedAgain # "" => normalizedAgain = normalizedType

\* " SEC urity" with a space inside is no label: it became code, and code
\* stayed code
WitnessC27 ==
    /\ agentStr = <<"SEC", " ", "urity">>
    /\ normalizedType = "code"
    /\ normalizedAgain = "code"

(***************************************************************************)
(* Properties of the agent call of a phase                                 *)
(***************************************************************************)

\* C28: the call of the agent of a phase is over 10 minutes after it began:
\* an agent that has not answered by then is cancelled and the phase fails,
\* also when the context given to Execute has no deadline.
ClaimC28 == pc = "agent" => waited <= PhaseTimeout

(***************************************************************************)
(* A streaming generate call (inference.Client.generate) and the agent     *)
(* that consumes it (CodeAgent.Execute with StreamCallback set)            *)
(***************************************************************************)

\* a line of the body that json.Unmarshal rejects
Unparsable == [unparsable |-> TRUE]

\* a line longer than the buffer of bufio.Scanner
TooLong == [tooLong |-> TRUE]

GenerateResponse(response, done) == [Response |-> response, Done |-> done]

TokenValues == {"", "a", "b"}

Records ==
    {GenerateResponse(t, d) : t \in TokenValues, d \in BOOLEAN}
        \cup {Unparsable, TooLong}

\* The tokens a body carries: the non-empty responses of the records the
\* scanner returns, up to the record with done = true.
RECURSIVE Stream(_)
Stream(b) ==
    IF b = <<>> \/ Head(b) = TooLong THEN <<>>
    ELSE IF Head(b) = Unparsable THEN Stream(Tail(b))
    ELSE (IF Head(b).Response # "" THEN <<Head(b).Response>> ELSE <<>>)
             \o (IF Head(b).Done THEN <<>> ELSE Stream(Tail(b)))

\* lines 121-139 of generate: the request is sent with the context and the
\* backend answers 200; the goroutine is started and the channel returned
Generate ==
    /\ consumer = "generate"
    /\ streamCtx = "live"
    /\ producer' = "scan"
    /\ consumer' = "range"
    /\ UNCHANGED <<body, scanned, responseChan, closes, genResp, streamCtx,
                   fullResponse, returned, interrupted, outsideStream>>

\* httpClient.Do fails (the context is cancelled, the backend is away) or
\* the status is not 200: generate returns an error and Execute wraps it
GenerateError ==
    /\ consumer = "generate"
    /\ consumer' = "returned"
    /\ returned' = [err |-> [error |-> "generation failed"],
                    Answer |-> <<>>]
    /\ UNCHANGED <<body, scanned, responseChan, closes, producer, genResp,
                   streamCtx, fullResponse, interrupted, outsideStream>>

enqueueFront(ch, token) == <<token>> \o ch

\* responseChan <- token
enqueue(ch, token) == Append(ch, token)

\* the goroutine returns: the deferred close(responseChan) runs
goroutineReturns ==
    /\ closes' = closes + 1
    /\ producer' = "done"
    /\ genResp' = NIL

\* scanner.Scan() returns a line. A line that does not parse is skipped, a
\* record with a token goes to the send, a record with done = true and no
\* token ends the goroutine.
Scan ==
    /\ producer = "scan"
    /\ scanned < Len(body)
    /\ body[scanned + 1] # TooLong
    /\ scanned' = scanned + 1
    /\ LET line == body[scanned + 1] IN
           IF line = Unparsable
           THEN UNCHANGED <<producer, genResp, closes>>
           ELSE IF line.Response # ""
           THEN /\ producer' = "send"
                /\ genResp' = line
                /\ UNCHANGED closes
           ELSE IF line.Done
           THEN goroutineReturns
           ELSE UNCHANGED <<producer, genResp, closes>>
    /\ UNCHANGED <<body, responseChan, streamCtx, fullResponse, consumer,
                   returned, interrupted, outsideStream>>

\* scanner.Scan() returns false: the body has ended, a line is too long, or
\* the read fails because the context of the request is cancelled. After a
\* cancellation a line that was already read may still be returned (Scan).
ScanEnd ==
    /\ producer = "scan"
    /\ \/ scanned = Len(body)
       \/ streamCtx = "cancelled"
       \/ scanned < Len(body) /\ body[scanned + 1] = TooLong
    /\ goroutineReturns
    /\ UNCHANGED <<body, scanned, responseChan, streamCtx, fullResponse,
                   consumer, returned, interrupted, outsideStream>>

\* select, case responseChan <- genResp.Response: the channel has room
Send ==
    /\ producer = "send"
    /\ Len(responseChan) < ChanSize
    /\ responseChan' = enqueue(responseChan, genResp.Response)
    /\ IF genResp.Done
       THEN goroutineReturns
       ELSE /\ producer' = "scan"
            /\ genResp' = NIL
            /\ UNCHANGED closes
    /\ UNCHANGED <<body, scanned, streamCtx, fullResponse, consumer, returned,
                   interrupted, outsideStream>>

\* select, case <-ctx.Done(): return; the token is dropped
SendCancelled ==
    /\ producer = "send"
    /\ streamCtx = "cancelled"
    /\ goroutineReturns
    /\ UNCHANGED <<body, scanned, responseChan, streamCtx, fullResponse,
                   consumer, returned, interrupted, outsideStream>>

\* The caller cancels the context or its deadline expires. interrupted
\* records whether the agent was ranging over the channel and had not yet
\* received every token of the body.
CancelStream ==
    /\ streamCtx = "live"
    /\ consumer # "returned"
    /\ streamCtx' = "cancelled"
    /\ interrupted' = (/\ consumer = "range"
                       /\ Len(fullResponse) < Len(Stream(body)))
    /\ UNCHANGED <<body, scanned, responseChan, closes, producer, genResp,
                   fullResponse, consumer, returned, outsideStream>>

\* for token := range tokenChan: fullResponse += token; StreamCallback(token)
Receive ==
    /\ consumer = "range"
    /\ responseChan # <<>>
    /\ fullResponse' = Append(fullResponse, Head(responseChan))
    /\ responseChan' = Tail(responseChan)
    /\ UNCHANGED <<body, scanned, closes, producer, genResp, streamCtx,
                   consumer, returned, interrupted, outsideStream>>

\* the channel is closed and empty: the range ends and Execute returns a
\* Response built from fullResponse, with a nil error
ExecuteReturns ==
    /\ consumer = "range"
    /\ responseChan = <<>>
    /\ closes > 0
    /\ consumer' = "returned"
    /\ returned' = [err |-> NIL, Answer |-> fullResponse]
    /\ UNCHANGED <<body, scanned, responseChan, closes, producer, genResp,
                   streamCtx, fullResponse, interrupted, outsideStream>>

StreamInit ==
    /\ phases = <<>>
    /\ agents = AgentKinds
    /\ scenario = Scenario("api", 0, "few")
    /\ fileStructure = NIL
    /\ config = DefaultOrchestratorConfig
    /\ agentStr = <<>>
    /\ body \in SeqsUpTo(Records, MaxRecords)
    /\ numCPU = 1
    /\ poolConfig = NIL
    /\ PlanInit

\* the goroutine of generate
Producer ==
    \/ Scan
    \/ ScanEnd
    \/ Send
    \/ SendCancelled

\* Execute of the agent
Consumer ==
    \/ Generate
    \/ GenerateError
    \/ Receive
    \/ ExecuteReturns

StreamNext ==
    \/ Producer
    \/ Consumer
    \/ CancelStream

StreamSpec == StreamInit /\ [][StreamNext]_vars

\* The goroutine of generate is scheduled: it does not stay for ever at a
\* step it can take.
StreamFairSpec == StreamSpec /\ WF_vars(Producer)

\* C29: when the context is cancelled while the agent is executing in
\* streaming mode and tokens are still pending, Execute returns the
\* cancellation error and no Response built from the tokens received.
ClaimC29 ==
    (interrupted /\ consumer = "returned") => returned.err # NIL

\* the tokens that have been put on the channel, in order of delivery
Delivered == fullResponse \o responseChan

IsPrefix(s, t) == Len(s) <= Len(t) /\ SubSeq(t, 1, Len(s)) = s

\* the goroutine of generate is running
Streaming == producer \in {"scan", "send"}

\* C30: for one streaming generate call the non-empty tokens are delivered
\* on the channel in the order their records arrive, none duplicated or
\* reordered, and all of them when the call is not cancelled; the channel
\* is closed at most once, and eventually: after a cancellation whatever
\* the consumer does (the producer does not stay blocked on a full
\* channel), and in every case when the consumer keeps ranging over the
\* channel, and then the consumer's loop ends.
TheoremC30 ==
    /\ [](IsPrefix(Delivered, Stream(body)))
    /\ []((closes > 0 /\ streamCtx = "live") => Delivered = Stream(body))
    /\ [](closes <= 1 /\ (closes = 1 <=> producer = "done"))
    /\ (Streaming /\ streamCtx = "cancelled") ~> (closes = 1)
    /\ WF_vars(Consumer) =>
           /\ Streaming ~> (closes = 1)
           /\ (consumer = "range") ~> (consumer = "returned")

\* a call with more tokens than the channel holds, all received in order by
\* the consumer, closed after the record with done = true
WitnessC30 ==
    /\ closes = 1
    /\ consumer = "returned"
    /\ Len(fullResponse) > ChanSize
    /\ fullResponse = Stream(body)
    /\ body[Len(body)].Done

(***************************************************************************)
(* Properties of the order of the phases                                   *)
(***************************************************************************)

\* a step of Execute that makes a phase in_progress
BecomesInProgress == PhaseStart \/ PhaseAgentNotFound

\* the indices 0 .. n - 1 in order
Indices(n) == [j \in 1..n |-> j - 1]

\* C31: within one call of Execute a phase becomes in_progress alone, its
\* index is above that of every phase started before in the call, every
\* phase before it has completed, completedPhases grows only by the index
\* of the phase that has just completed, and it lists the phases in
\* declaration order.
TheoremC31 ==
    /\ [][BecomesInProgress =>
            /\ \A j \in called : j < idx
            /\ \A k \in 1..Len(phases) :
                 k # idx + 1 =>
                    /\ phases'[k] = phases[k]
                    /\ phases[k].status # PhaseStatusInProgress
            /\ \A k \in 1..idx :
                 /\ phases[k].status = PhaseStatusCompleted
                 /\ \E c \in 1..Len(state.completedPhases) :
                      state.completedPhases[c] = k - 1]_vars
    /\ [][(pc \in {"loop", "agent", "cmds"}
              /\ state'.completedPhases # state.completedPhases) =>
            /\ state'.completedPhases = Append(state.completedPhases, idx)
            /\ idx \in called
            /\ phases'[idx + 1].status = PhaseStatusCompleted]_vars
    /\ [](state.completedPhases = Indices(Len(state.completedPhases)))

\* the second phase of a plan has been started after the first completed
WitnessC31 ==
    /\ pc = "agent"
    /\ idx = 1
    /\ called = {0, 1}
    /\ state.completedPhases = <<0>>
    /\ phases[2].dependencies = {}

(***************************************************************************)
(* Planner.Generate gives a plan its id; SavePlanState writes the plan to  *)
(* the file named after the id.                                            *)
(***************************************************************************)

\* generatePlanID: "plan_" and time.Now() in the layout 20060102_150405,
\* which keeps the time down to the second
generatePlanID(now) == [plan |-> now \div TicksPerSecond]

\* time passes
Tick ==
    /\ wallClock < MaxTicks
    /\ wallClock' = wallClock + 1
    /\ UNCHANGED <<generated, stateDir, outsidePlanner>>

\* Planner.Generate, lines 45-54: the plan gets the id of this moment
PlannerGenerate ==
    /\ Len(generated) < MaxPlans
    /\ generated' = Append(generated, generatePlanID(wallClock))
    /\ UNCHANGED <<wallClock, stateDir, outsidePlanner>>

\* SavePlanState(plan) for the k-th plan generated: the file of plan.ID is
\* written, whatever it held
SaveGenerated ==
    /\ \E k \in 1..Len(generated) :
         stateDir' = MapPut(stateDir, generated[k], k)
    /\ UNCHANGED <<wallClock, generated, outsidePlanner>>

PlannerInit ==
    /\ phases = <<>>
    /\ agents = AgentKinds
    /\ scenario = Scenario("api", 0, "few")
    /\ fileStructure = NIL
    /\ config = DefaultOrchestratorConfig
    /\ agentStr = <<>>
    /\ body = <<>>
    /\ numCPU = 1
    /\ poolConfig = NIL
    /\ PlanInit

PlannerNext ==
    \/ Tick
    \/ PlannerGenerate
    \/ SaveGenerated

PlannerSpec == PlannerInit /\ [][PlannerNext]_vars

\* C32: two plans of separate calls of Planner.Generate have different
\* ids, and the file SavePlanState wrote for one plan is never overwritten
\* with another plan.
ClaimC32 ==
    /\ [](\A j, k \in 1..Len(generated) :
             j # k => generated[j] # generated[k])
    /\ [][\A id \in DOMAIN stateDir :
            id \in DOMAIN stateDir' /\ stateDir'[id] = stateDir[id]]_vars

(***************************************************************************)
(* Properties of the tasks                                                 *)
(***************************************************************************)

\* executePhase returned nil for the phase in hand
PhaseSucceeds == pc = "cmds" /\ pc' = "loop"

\* the agent of the phase was not found or returned an error
AgentCallFails == PhaseAgentNotFound \/ AgentError

TasksOf(ps) == [k \in 1..Len(ps) |-> ps[k].tasks]

\* C33: when a phase succeeds every task of it is completed with the full
\* answer of the agent as its result and the tasks of the other phases
\* are untouched; when the call of the agent fails no task of any phase
\* changes; the tasks of a completed phase are all completed.
TheoremC33 ==
    /\ [][PhaseSucceeds =>
            /\ \A t \in 1..Len(phases'[idx + 1].tasks) :
                 /\ phases'[idx + 1].tasks[t].completed
                 /\ phases'[idx + 1].tasks[t].result = agentResponse.Answer
            /\ Len(phases'[idx + 1].tasks) = Len(phases[idx + 1].tasks)
            /\ \A k \in 1..Len(phases) :
                 k # idx + 1 => phases'[k].tasks = phases[k].tasks]_vars
    /\ [][AgentCallFails => TasksOf(phases') = TasksOf(phases)]_vars
    /\ [](\A k \in 1..Len(phases) :
             phases[k].status = PhaseStatusCompleted =>
                \A t \in 1..Len(phases[k].tasks) : phases[k].tasks[t].completed)

\* the first phase has succeeded with the answer "done" and the agent of
\* the second phase has failed: the two tasks of the first phase hold
\* "done", the task of the second is as it was
WitnessC33 ==
    /\ Len(phases) = 2
    /\ result = "phase failed"
    /\ state.failedPhases = <<1>>
    /\ phases[1].tasks = <<[completed |-> TRUE, result |-> "done"],
                           [completed |-> TRUE, result |-> "done"]>>
    /\ phases[2].tasks = <<[completed |-> FALSE, result |-> ""]>>

(***************************************************************************)
(* NewPool and DefaultPoolConfig (part_004 lines 53-87)                    *)
(***************************************************************************)

PoolConfig(workers_, queueSize, maxConcurrent) ==
    [Workers |-> workers_, QueueSize |-> queueSize,
     MaxConcurrent |-> maxConcurrent]

\* DefaultPoolConfig on a machine of cpus processors
DefaultPoolConfig(cpus) == PoolConfig(cpus * 2, 1000, 4)

\* the configurations a caller passes: none, or its own
PoolConfigs ==
    {NIL, PoolConfig(MaxWorkers, QueueSize, MaxConcurrent), PoolConfig(100, 1000, 4)}

\* NewPool(cfg): the fields of the pool that come from the configuration
newPool(cfg, cpus) ==
    LET used == IF cfg = NIL THEN DefaultPoolConfig(cpus) ELSE cfg
    IN  [workers |-> used.Workers,
         queue |-> used.QueueSize,
         semaphore |-> used.MaxConcurrent]

CallNewPool ==
    /\ created = NIL
    /\ created' = newPool(poolConfig, numCPU)
    /\ UNCHANGED <<numCPU, poolConfig, outsideNewPool>>

NewPoolInit ==
    /\ phases = <<>>
    /\ agents = AgentKinds
    /\ scenario = Scenario("api", 0, "few")
    /\ fileStructure = NIL
    /\ config = DefaultOrchestratorConfig
    /\ agentStr = <<>>
    /\ body = <<>>
    /\ numCPU \in 1..MaxCPU
    /\ poolConfig \in PoolConfigs
    /\ PlanInit

NewPoolNext == CallNewPool

NewPoolSpec == NewPoolInit /\ [][NewPoolNext]_vars

\* C34: a pool created with the default configuration, NewPool(nil), has
\* exactly 100 workers.
ClaimC34 == (created # NIL /\ poolConfig = NIL) => created.workers = 100

(***************************************************************************)
(* Properties of the errors of Execute                                     *)
(***************************************************************************)

\* what Execute returns when it returns an error
ExecuteErrors == {"phase failed", "dependencies not met"}

\* C35: whenever Execute has returned an error the plan has status failed
\* and the index of the phase that could not be run is in failedPhases.
ClaimC35 ==
    (pc = "idle" /\ result \in ExecuteErrors) =>
        /\ state.status = ExecutionStatusFailed
        /\ \E f \in 1..Len(state.failedPhases) : state.failedPhases[f] = idx

(***************************************************************************)
(* The pool with its goroutines scheduled: a worker does not stay for     *)
(* ever at a step it can take, and a call of the backend returns.          *)
(***************************************************************************)

\* the steps of the goroutine of worker w
WorkerStep(w) ==
    \/ Take(w)
    \/ WorkerExit(w)
    \/ SemaphoreSelect(w)
    \/ WaitCancelled(w)
    \/ StartCall(w)
    \/ CallReturns(w)
    \/ Callback(w)
    \/ Decrement(w)
    \/ Release(w)

PoolFairSpec == PoolSpec /\ \A w \in 1..MaxWorkers : WF_vars(WorkerStep(w))

\* the callback of request r has been invoked
CalledBack(r) == r <= Len(requests) /\ requests[r].outcome # "none"

\* C36: every request Submit accepted eventually has its callback invoked,
\* also a request that is still in the queue when Shutdown is called or
\* when the timeout of Shutdown fires.
ClaimC36 ==
    \A r \in 1..MaxRequests :
        (r <= Len(requests) /\ requests[r].submit = "enqueue") ~> CalledBack(r)

\* C37: no interleaving of Submit and Shutdown sends on the closed queue
\* or closes it twice: no call of Submit or of Shutdown panics.
ClaimC37 == panic = "none"

(***************************************************************************)
(* C38: Executor.Execute leaves plan.FileStructure as it found it: no step *)
(* of an execution (from the call of Execute to its return) changes the    *)
(* plan's map from directories to files, whatever files the manifest       *)
(* records.                                                                *)
(***************************************************************************)
ClaimC38 == [][pc # "idle" => fileStructure' = fileStructure]_vars

(***************************************************************************)
(* C39: when a phase fails and Execute rolls back to its checkpoint, the   *)
(* manifest's createdFiles and the files written by the executor are what  *)
(* they were when the checkpoint was taken: the failed phase leaves no     *)
(* file and no manifest entry of its own.                                  *)
(***************************************************************************)
\* a step of Execute that appends to failedPhases, after the rollback
PhaseFails ==
    /\ pc \in {"loop", "agent", "cmds"}
    /\ Len(state'.failedPhases) > Len(state.failedPhases)

TheoremC39 ==
    [][PhaseFails => /\ manifest'.createdFiles = checkpointed'.createdFiles
                     /\ disk' = checkpointed'.disk]_vars

\* a phase failed after an earlier phase of the same execution wrote a file
WitnessC39 ==
    /\ pc = "idle"
    /\ result = "phase failed"
    /\ checkpointed # NIL
    /\ checkpointed.createdFiles # <<>>
    /\ manifest.createdFiles = checkpointed.createdFiles
    /\ state.failedPhases # <<>>

(***************************************************************************)
(* C40: every backend call an agent makes goes through the inference pool: *)
(* each generate call in progress for an agent holds a token of the pool's *)
(* semaphore, so that at most MaxConcurrent of them are in progress at any *)
(* time.                                                                   *)
(***************************************************************************)
\* the generate calls in progress that agents issued
agentCalls ==
    Cardinality({g \in 1..Len(fanout) : fanout[g].at = "generating"})
        + (IF pc = "agent" THEN 1 ELSE 0)

ClaimC40 ==
    /\ agentCalls <= semaphore
    /\ agentCalls <= MaxConcurrent

=============================================================================
